---- MODULE Spec2Model ----
(***************************************************************************)
(* rssrssrssrss: fetch several RSS/Atom/JSON feeds, merge their items and  *)
(* serialise the merged feed as RSS 2.0 or JSON Feed 1.1.                  *)
(*                                                                         *)
(* Text is modelled character by character: a string is a sequence of      *)
(* one-character strings, so escaping, CDATA wrapping and prefix tests are *)
(* computed on characters as the code computes them.  A character outside  *)
(* ASCII is written by its name: "EMDASH", "LDQUO", "RDQUO", "WARNING",    *)
(* "VS16" (the two code points of the warning sign), "NUL".                *)
(***************************************************************************)
EXTENDS Integers, Sequences, FiniteSets, TLC

VARIABLES
    results,      \* mergeFeeds: the per-source results passed in
    mergedFeed,   \* mergeFeeds: the CustomFeed returned
    xml,          \* generateRSS: the document returned
    json,         \* generateJSONFeed: the document returned
    phase,        \* position of the library pipeline: "input", "merged", ...
    request,      \* GET: the decoded request (urls, format)
    net,          \* what each remote URL answers (fixed for one request)
    tasks,        \* GET: one parseFeedFromUrl promise per URL
    order,        \* GET: the indexes of the tasks in the order they settled
    allResults,   \* GET: the array Promise.all resolved to
    handlerFeed,  \* GET: the feed mergeFeeds returned to the handler
    mergeCalls,   \* GET: how often the handler called mergeFeeds
    response,     \* GET: the response sent
    hpc,          \* GET: position of the handler
    call,         \* a library function called on its own: arguments and return
    page          \* Home: the state of the home page and its preview requests

libVars == <<results, mergedFeed, xml, json, phase>>
getVars == <<request, net, tasks, order, allResults, handlerFeed, mergeCalls, response, hpc,
            page>>
vars == <<results, mergedFeed, xml, json, phase,
          request, net, tasks, order, allResults, handlerFeed, mergeCalls, response, hpc,
          call, page>>

(***************************************************************************)
(* Bounds of the model                                                     *)
(***************************************************************************)
MaxResults == 2       \* results in one mergeFeeds call
MaxTotalItems == 3    \* items of all small feeds of one mergeFeeds call
MaxUrls == 2          \* source URLs of one request
MaxTextLen == 3       \* characters of a title, link, content or snippet
MaxLinks == 2         \* rel="alternate" link tags of one page
MaxEdits == 3         \* changes the user makes to the feed list
MaxCategories == 2    \* categories of one item

(***************************************************************************)
(* JavaScript values.  t is the typeof tag; s is the text of a string, or  *)
(* the String() form of a number or boolean, or, for an object, the text   *)
(* of its `_` property; u is the type of an object's `_` property.         *)
(***************************************************************************)
Undefined == [t |-> "undefined", s |-> <<>>, u |-> "undefined"]
Null == [t |-> "null", s |-> <<>>, u |-> "undefined"]
Str(chars) == [t |-> "string", s |-> chars, u |-> "undefined"]
Num(chars) == [t |-> "number", s |-> chars, u |-> "undefined"]
Bool(chars) == [t |-> "boolean", s |-> chars, u |-> "undefined"]
\* { $: {...attributes}, _: <a value of type u whose text is chars> }
Obj(u, chars) == [t |-> "object", s |-> chars, u |-> u]

\* JavaScript truthiness (ToBoolean).
Truthy(v) ==
    CASE v.t = "string" -> v.s # <<>>
      [] v.t = "number" -> v.s # <<"0">>
      [] v.t = "boolean" -> v.s = <<"t", "r", "u", "e">>
      [] v.t = "object" -> TRUE
      [] OTHER -> FALSE

\* a || b
Or(a, b) == IF Truthy(a) THEN a ELSE b

\* value == null
IsNullish(v) == v.t \in {"undefined", "null"}

Range(seq) == {seq[i] : i \in 1..Len(seq)}

RECURSIVE Concat(_)
Concat(seqs) == IF seqs = <<>> THEN <<>> ELSE Head(seqs) \o Concat(Tail(seqs))

StartsWith(str, prefix) ==
    /\ Len(str) >= Len(prefix)
    /\ SubSeq(str, 1, Len(prefix)) = prefix

\* sub occurs in str at index i.
StartsAt(str, i, sub) ==
    /\ i + Len(sub) - 1 <= Len(str)
    /\ SubSeq(str, i, i + Len(sub) - 1) = sub

\* str.includes(sub)
Contains(str, sub) == sub = <<>> \/ \E i \in 1..Len(str) : StartsAt(str, i, sub)

\* str.indexOf(c) for a character c, counted from 1; 0 when absent.
IndexOf(str, c) ==
    LET at == {i \in 1..Len(str) : str[i] = c}
    IN  IF at = {} THEN 0 ELSE CHOOSE i \in at : \A j \in at : i <= j

\* str.lastIndexOf(c) for a character c, counted from 1; 0 when absent.
LastIndexOf(str, c) ==
    LET at == {i \in 1..Len(str) : str[i] = c}
    IN  IF at = {} THEN 0 ELSE CHOOSE i \in at : \A j \in at : i >= j

\* String(n) for a small natural number n.
Digit(n) == <<"0", "1", "2", "3", "4", "5", "6", "7", "8", "9">>[n + 1]

RECURSIVE NumberToString(_)
NumberToString(n) ==
    IF n < 10 THEN <<Digit(n)>> ELSE NumberToString(n \div 10) \o <<Digit(n % 10)>>

(***************************************************************************)
(* Items and feeds (CustomItem, CustomFeed)                                *)
(***************************************************************************)
NoCategories == [set |-> FALSE, list |-> <<>>]
Categories(list) == [set |-> TRUE, list |-> list]

NullFeed == [null |-> TRUE, title |-> Undefined, description |-> Undefined,
             link |-> Undefined, items |-> <<>>]
Feed(title, description, link, items) ==
    [null |-> FALSE, title |-> title, description |-> description,
     link |-> link, items |-> items]

(***************************************************************************)
(* Dates.  new Date(text).getTime() is modelled on year texts, counted in  *)
(* years since 1970; any other text does not parse and yields NaN.         *)
(***************************************************************************)
NaN == [nan |-> TRUE, n |-> 0]
Time(n) == [nan |-> FALSE, n |-> n]

Y0001 == <<"0", "0", "0", "1">>
Y1970 == <<"1", "9", "7", "0">>
Y2024 == <<"2", "0", "2", "4">>
Y2025 == <<"2", "0", "2", "5">>
Y2026 == <<"2", "0", "2", "6">>
NotADate == <<"s", "o", "o", "n">>

\* new Date(text).getTime()
getTime(text) ==
    CASE text = Y0001 -> Time(0 - 1969)
      [] text = Y1970 -> Time(0)
      [] text = Y2024 -> Time(54)
      [] text = Y2025 -> Time(55)
      [] text = Y2026 -> Time(56)
      [] OTHER -> NaN

\* The clock read by new Date() and Date.now().
Now == [text |-> Y2026, ms |-> <<"5", "6">>]

(***************************************************************************)
(* Helpers for XML generation                                              *)
(***************************************************************************)
ObjectObject == <<"[", "o", "b", "j", "e", "c", "t", " ", "O", "b", "j", "e", "c", "t", "]">>

\* String(v._) for the `_` property of an object whose `_` is neither a
\* string nor nullish.
StringOfUnderscore(v) == IF v.u = "object" THEN ObjectObject ELSE v.s

safeString(value) ==
    CASE IsNullish(value) -> <<>>
      [] value.t = "string" -> value.s
      [] value.t \in {"number", "boolean"} -> value.s
      [] value.t = "object" ->
            IF value.u = "string" THEN value.s
            ELSE IF value.u \notin {"undefined", "null"} THEN StringOfUnderscore(value)
            ELSE <<>>
      [] OTHER -> value.s

RECURSIVE ReplaceAll(_, _, _)
\* str.replace(/c/g, rep)
ReplaceAll(str, c, rep) ==
    IF Len(str) = 0 THEN <<>>
    ELSE IF Len(str) = 1 THEN (IF str[1] = c THEN rep ELSE str)
    ELSE ReplaceAll(SubSeq(str, 1, Len(str) \div 2), c, rep)
         \o ReplaceAll(SubSeq(str, Len(str) \div 2 + 1, Len(str)), c, rep)

Amp == <<"&", "a", "m", "p", ";">>
Lt == <<"&", "l", "t", ";">>
Gt == <<"&", "g", "t", ";">>
Quot == <<"&", "q", "u", "o", "t", ";">>
Apos == <<"&", "a", "p", "o", "s", ";">>

\* The five replacements with & replaced last, after the entities were written.
escapeXmlAmpLast(unsafe) ==
    ReplaceAll(ReplaceAll(ReplaceAll(ReplaceAll(ReplaceAll(
        safeString(unsafe), "<", Lt), ">", Gt), "\"", Quot), "'", Apos), "&", Amp)

escapeXml(unsafe) ==
    LET str == safeString(unsafe)
    IN  IF str = <<>> THEN <<>>
        ELSE ReplaceAll(ReplaceAll(ReplaceAll(ReplaceAll(ReplaceAll(
                 str, "&", Amp), "<", Lt), ">", Gt), "\"", Quot), "'", Apos)

CDataOpen == <<"<", "!", "[", "C", "D", "A", "T", "A", "[">>
CDataClose == <<"]", "]", ">">>

wrapCDATA(content) == CDataOpen \o safeString(content) \o CDataClose

(***************************************************************************)
(* mergeFeeds                                                              *)
(***************************************************************************)
FEED_TITLE == <<"M", "e", "r", "g", "e", "d", " ", "F", "e", "e", "d">>
MaxItems == 100

Unknown == <<"u", "n", "k", "n", "o", "w", "n">>
ErrorDash == <<"e", "r", "r", "o", "r", "-">>
FailedTitle == <<"WARNING", "VS16", " ", "F", "a", "i", "l", "e", "d", " ", "t", "o", " ", "l", "o", "a", "d", " ", "f", "e", "e", "d", ":", " ">>
ErrorColon == <<"E", "r", "r", "o", "r", ":", " ">>
FailedP == <<"<", "p", ">", "F", "a", "i", "l", "e", "d", " ", "t", "o", " ", "l", "o", "a", "d", " ", "t", "h", "i", "s", " ", "f", "e", "e", "d", ":", "<", "/", "p", ">", "<", "p", ">", "<", "c", "o", "d", "e", ">">>
FailedErrorP == <<"<", "/", "c", "o", "d", "e", ">", "<", "/", "p", ">", "<", "p", ">", "E", "r", "r", "o", "r", ":", " ">>
EndP == <<"<", "/", "p", ">">>
CombinedFrom == <<"C", "o", "m", "b", "i", "n", "e", "d", " ", "f", "e", "e", "d", " ", "f", "r", "o", "m", " ">>
FailedToLoad == <<" ", "f", "e", "e", "d", "(", "s", ")", " ", "f", "a", "i", "l", "e", "d", " ", "t", "o", " ", "l", "o", "a", "d", ")">>

\* The test `if (error)` on one result.
IsFailedResult(r) == Truthy(r.error)

\* failedFeeds: one entry per result with an error, in result order.
RECURSIVE failedFeedsOf(_)
failedFeedsOf(rs) ==
    IF rs = <<>> THEN <<>>
    ELSE (IF IsFailedResult(Head(rs))
          THEN <<[url |-> Or(Head(rs).url, Str(Unknown)), error |-> Head(rs).error]>>
          ELSE <<>>) \o failedFeedsOf(Tail(rs))

\* allItems before sorting: the items of the results without an error.
RECURSIVE allItemsOf(_)
allItemsOf(rs) ==
    IF rs = <<>> THEN <<>>
    ELSE (IF ~IsFailedResult(Head(rs)) /\ ~Head(rs).feed.null /\ Len(Head(rs).feed.items) > 0
          THEN Head(rs).feed.items
          ELSE <<>>) \o allItemsOf(Tail(rs))

\* A failure item whose content names the URL and the error as they are.
errorItemUnescaped(failed, now) ==
    [title |-> Str(FailedTitle \o failed.url.s),
     link |-> failed.url,
     pubDate |-> Str(now.text),
     isoDate |-> Str(now.text),
     contentSnippet |-> Str(ErrorColon \o failed.error.s),
     content |-> Str(FailedP \o failed.url.s \o FailedErrorP \o failed.error.s \o EndP),
     creator |-> Undefined,
     guid |-> Str(ErrorDash \o failed.url.s \o <<"-">> \o now.ms),
     categories |-> NoCategories,
     sourceFeedTitle |-> Undefined,
     sourceFeedUrl |-> Undefined]

errorItem(failed, now) ==
    [title |-> Str(FailedTitle \o failed.url.s),
     link |-> failed.url,
     pubDate |-> Str(now.text),
     isoDate |-> Str(now.text),
     contentSnippet |-> Str(ErrorColon \o failed.error.s),
     content |-> Str(FailedP \o escapeXml(failed.url) \o FailedErrorP
                     \o escapeXml(failed.error) \o EndP),
     creator |-> Undefined,
     guid |-> Str(ErrorDash \o failed.url.s \o <<"-">> \o now.ms),
     categories |-> NoCategories,
     sourceFeedTitle |-> Undefined,
     sourceFeedUrl |-> Undefined]

errorItemsOf(failedFeeds, now) ==
    [i \in 1..Len(failedFeeds) |-> errorItem(failedFeeds[i], now)]

\* The date a real item is sorted by: isoDate if set, else pubDate || 0.
itemDate(a) ==
    IF Truthy(a.isoDate) THEN getTime(a.isoDate.s)
    ELSE IF Truthy(a.pubDate) THEN getTime(a.pubDate.s)
    ELSE Time(0)

\* The comparator passed to sort: dateB.getTime() - dateA.getTime().
compareFn(a, b) ==
    LET dateA == itemDate(a)
        dateB == itemDate(b)
    IN  IF dateA.nan \/ dateB.nan THEN NaN ELSE Time(dateB.n - dateA.n)

\* ECMAScript SortCompare: a comparator result of NaN counts as +0.
SortCompare(a, b) == IF compareFn(a, b).nan THEN 0 ELSE compareFn(a, b).n

\* ECMAScript: the comparator is consistent for the values of the array.
ConsistentComparator(S) ==
    \A a \in S : \A b \in S : \A c \in S :
        /\ (SortCompare(a, b) = 0 /\ SortCompare(b, c) = 0) => SortCompare(a, c) = 0
        /\ (SortCompare(a, b) < 0 /\ SortCompare(b, c) < 0) => SortCompare(a, c) < 0
        /\ (SortCompare(a, b) > 0 /\ SortCompare(b, c) > 0) => SortCompare(a, c) > 0

RECURSIVE StableSort(_)
\* The stable sort under a consistent comparator: the elements that no element
\* sorts before come first, in the order they had, then the rest likewise.
StableSort(items) ==
    IF items = <<>> THEN <<>>
    ELSE LET values == Range(items)
             IsFirst(x) == \A y \in values : SortCompare(y, x) >= 0
             IsLater(x) == ~IsFirst(x)
         IN  SelectSeq(items, IsFirst) \o StableSort(SelectSeq(items, IsLater))

Permuted(items) ==
    {[i \in 1..Len(items) |-> items[p[i]]] : p \in Permutations(1..Len(items))}

\* allItems.sort(compareFn): the stable sort when the comparator is consistent;
\* otherwise ECMAScript leaves the order to the engine.
sortOutcomes(items) ==
    IF ConsistentComparator(Range(items)) THEN {StableSort(items)} ELSE Permuted(items)

\* items.slice(0, n)
slice(items, n) == SubSeq(items, 1, IF Len(items) < n THEN Len(items) ELSE n)

RECURSIVE join(_, _)
join(strs, sep) ==
    IF strs = <<>> THEN <<>>
    ELSE IF Len(strs) = 1 THEN strs[1]
    ELSE strs[1] \o sep \o join(Tail(strs), sep)

\* The titles of the results that have a feed with a title.
RECURSIVE successfulFeedTitlesOf(_)
successfulFeedTitlesOf(rs) ==
    IF rs = <<>> THEN <<>>
    ELSE (IF ~Head(rs).feed.null /\ Truthy(Head(rs).feed.title)
          THEN <<Head(rs).feed.title.s>> ELSE <<>>) \o successfulFeedTitlesOf(Tail(rs))

mergeDescription(rs) ==
    CombinedFrom \o join(successfulFeedTitlesOf(rs), <<",", " ">>)
    \o (IF Len(failedFeedsOf(rs)) > 0
        THEN <<" ", "(">> \o NumberToString(Len(failedFeedsOf(rs))) \o FailedToLoad
        ELSE <<>>)

\* The feed mergeFeeds(results, requestUrl) returns at clock `now` when
\* allItems.sort has left allItems in the given order.
mergedFrom(rs, requestUrl, now, allItems) ==
    LET errorItems == errorItemsOf(failedFeedsOf(rs), now)
    IN  [null |-> FALSE,
         title |-> Str(FEED_TITLE),
         description |-> Str(mergeDescription(rs)),
         link |-> requestUrl,
         items |-> slice(errorItems \o allItems, MaxItems)]

\* The feeds mergeFeeds(results, requestUrl) can return at clock `now`.
mergeFeeds(rs, requestUrl, now) ==
    {mergedFrom(rs, requestUrl, now, allItems) : allItems \in sortOutcomes(allItemsOf(rs))}

\* The arrays mergeFeeds can write are numbered: cell i is the items array
\* of the feed of results[i], and the cells after them are new arrays.
\* allItems filled in place in the array of the first result.
allItemsInFirstInput(rs) == 1

\* const allItems = []: a new array.  push and sort write this cell; the
\* spread [...errorItems, ...allItems] and slice read it into new arrays.
allItemsCell(rs) == Len(rs) + 1

\* The results as the caller sees them after mergeFeeds, allItems.sort
\* having left the given order in the cell of allItems.
resultsAfterMerge(rs, allItems) ==
    LET arrays == [c \in 1..(Len(rs) + 1) |->
                      IF c = allItemsCell(rs) THEN allItems
                      ELSE IF c <= Len(rs) THEN rs[c].feed.items
                      ELSE <<>>]
    IN  [i \in 1..Len(rs) |->
            IF rs[i].feed.null THEN rs[i]
            ELSE [rs[i] EXCEPT !.feed.items = arrays[i]]]

(***************************************************************************)
(* encodeContent: content.replace(/[^\x20-\x7E\n\r\t]/g, "")               *)
(***************************************************************************)
\* The modelled characters outside \x20-\x7E, \n, \r, \t.
NonPrintable == {"EMDASH", "LDQUO", "RDQUO", "WARNING", "VS16", "NUL"}

\* A replace that removes the control character only.
encodeContentControlOnly(content) ==
    LET Keep(c) == c # "NUL"
    IN  SelectSeq(content, Keep)

encodeContent(content) ==
    LET Keep(c) == c \notin NonPrintable
    IN  SelectSeq(content, Keep)

(***************************************************************************)
(* generateRSS.  The document is kept as its elements: the channel fields  *)
(* and, per item, the elements in the order written, each with the text    *)
(* written between its tags (and in its url attribute, for <source>).      *)
(***************************************************************************)
GENERATOR == <<"r", "s", "s", "r", "s", "s", "r", "s", "s", "r", "s", "s">>
DefaultDescription == <<"C", "o", "m", "b", "i", "n", "e", "d", " ", "f", "e", "e", "d", " ", "f", "r", "o", "m", " ", "m", "u", "l", "t", "i", "p", "l", "e", " ", "s", "o", "u", "r", "c", "e", "s">>

Elem(tag, body) == [tag |-> tag, selfClosing |-> FALSE, attr |-> <<>>, body |-> body]
EmptyElem(tag) == [tag |-> tag, selfClosing |-> TRUE, attr |-> <<>>, body |-> <<>>]
ElemWithUrl(tag, url, body) == [tag |-> tag, selfClosing |-> FALSE, attr |-> url, body |-> body]

titleXml(item) ==
    IF Truthy(item.title) THEN <<Elem("title", escapeXml(item.title))>>
    ELSE <<EmptyElem("title")>>

linkXml(item) ==
    IF Truthy(item.link) THEN <<Elem("link", escapeXml(item.link))>> ELSE <<>>

guidXml(item) == <<Elem("guid", escapeXml(Or(Or(item.guid, item.link), Str(<<>>))))>>

pubDateXml(item) ==
    IF Truthy(item.pubDate) THEN <<Elem("pubDate", escapeXml(item.pubDate))>>
    ELSE IF Truthy(item.isoDate) THEN <<Elem("pubDate", escapeXml(item.isoDate))>>
    ELSE <<>>

creatorXml(item) ==
    IF Truthy(item.creator) THEN <<Elem("dc:creator", wrapCDATA(item.creator))>> ELSE <<>>

contentXml(item) ==
    IF Truthy(item.content) THEN <<Elem("content:encoded", wrapCDATA(item.content))>>
    ELSE IF Truthy(item.contentSnippet)
         THEN <<Elem("description", escapeXml(Str(encodeContent(item.contentSnippet.s))))>>
    ELSE <<>>

\* encodeContent called on a snippet that is not a string: content.replace
\* is not a function, and the TypeError leaves generateRSS.
generateRSSThrows(feed) ==
    \E i \in 1..Len(feed.items) :
        /\ ~Truthy(feed.items[i].content)
        /\ Truthy(feed.items[i].contentSnippet)
        /\ feed.items[i].contentSnippet.t # "string"

categoriesXml(item) ==
    IF item.categories.set /\ Len(item.categories.list) > 0
    THEN [i \in 1..Len(item.categories.list) |->
              Elem("category", escapeXml(item.categories.list[i]))]
    ELSE <<>>

sourceXml(item) ==
    IF Truthy(item.sourceFeedTitle) /\ Truthy(item.sourceFeedUrl)
    THEN <<ElemWithUrl("source", escapeXml(item.sourceFeedUrl), escapeXml(item.sourceFeedTitle))>>
    ELSE <<>>

itemXml(item) ==
    titleXml(item) \o linkXml(item) \o guidXml(item) \o pubDateXml(item)
    \o creatorXml(item) \o contentXml(item) \o categoriesXml(item) \o sourceXml(item)

generateRSS(feed, requestUrl, now) ==
    [title |-> escapeXml(Or(feed.title, Str(FEED_TITLE))),
     description |-> escapeXml(Or(feed.description, Str(DefaultDescription))),
     link |-> escapeXml(Or(Or(feed.link, requestUrl), Str(<<>>))),
     lastBuildDate |-> now.text,
     generator |-> GENERATOR,
     items |-> [i \in 1..Len(feed.items) |-> itemXml(feed.items[i])]]

(***************************************************************************)
(* generateJSONFeed.  The document is kept as the object handed to         *)
(* JSON.stringify; an undefined member is one JSON.stringify leaves out.   *)
(***************************************************************************)
JsonFeedVersion == <<"h", "t", "t", "p", "s", ":", "/", "/", "j", "s", "o", "n", "f", "e", "e", "d", ".", "o", "r", "g", "/", "v", "e", "r", "s", "i", "o", "n", "/", "1", ".", "1">>

\* crypto.randomUUID() for the i-th item, from the random stream `seed`.
randomUUID(seed, i) == <<"u", "u", "i", "d", "-">> \o seed \o <<"-">> \o NumberToString(i)

\* An id that is random whenever the guid has no text, link or not.
jsonIdWithoutLink(item, seed, i) ==
    IF safeString(item.guid) # <<>> THEN safeString(item.guid) ELSE randomUUID(seed, i)

\* safeString(item.guid) || safeString(item.link) || crypto.randomUUID()
jsonId(item, seed, i) ==
    IF safeString(item.guid) # <<>> THEN safeString(item.guid)
    ELSE IF safeString(item.link) # <<>> THEN safeString(item.link)
    ELSE randomUUID(seed, i)

\* The tags as String(cat) would give them, the structure of a category kept.
jsonTagsUncoerced(item) ==
    IF item.categories.set
    THEN [set |-> TRUE,
          list |-> [i \in 1..Len(item.categories.list) |->
                       IF item.categories.list[i].t = "object" THEN ObjectObject
                       ELSE item.categories.list[i].s]]
    ELSE [set |-> FALSE, list |-> <<>>]

\* item.categories ? item.categories.map((cat) => safeString(cat)) : undefined
jsonTags(item) ==
    IF item.categories.set
    THEN [set |-> TRUE,
          list |-> [i \in 1..Len(item.categories.list) |-> safeString(item.categories.list[i])]]
    ELSE [set |-> FALSE, list |-> <<>>]

jsonItem(item, seed, i) ==
    [id |-> jsonId(item, seed, i),
     url |-> item.link,
     title |-> item.title,
     content_html |-> item.content,
     content_text |-> item.contentSnippet,
     date_published |-> Or(item.isoDate, item.pubDate),
     author |-> IF Truthy(item.creator) THEN item.creator ELSE Undefined,
     tags |-> jsonTags(item)]

generateJSONFeed(feed, requestUrl, seed) ==
    [version |-> JsonFeedVersion,
     title |-> Or(feed.title, Str(FEED_TITLE)),
     description |-> feed.description,
     home_page_url |-> feed.link,
     feed_url |-> requestUrl,
     items |-> [i \in 1..Len(feed.items) |-> jsonItem(feed.items[i], seed, i)]]

NoXml == [title |-> <<>>, description |-> <<>>, link |-> <<>>, lastBuildDate |-> <<>>,
          generator |-> <<>>, items |-> <<>>]
NoJson == [version |-> <<>>, title |-> Undefined, description |-> Undefined,
           home_page_url |-> Undefined, feed_url |-> Undefined, items |-> <<>>]
Seeds == {<<"a">>, <<"b">>}

(***************************************************************************)
(* Inputs of mergeFeeds                                                    *)
(***************************************************************************)
U1 == <<"h", "t", "t", "p", ":", "/", "/", "a", "/", "p">>
U2 == <<"h", "t", "t", "p", ":", "/", "/", "b">>
FeedOneTitle == <<"F", "1">>
Failed == <<"F", "a", "i", "l", "e", "d">>

\* An item as parseFeedFromXml yields it: stamped with its source feed.
DatedItem(title, isoDate, pubDate) ==
    [title |-> Str(title), link |-> Undefined, pubDate |-> pubDate, isoDate |-> isoDate,
     contentSnippet |-> Undefined, content |-> Undefined, creator |-> Undefined,
     guid |-> Undefined, categories |-> NoCategories,
     sourceFeedTitle |-> Str(FeedOneTitle), sourceFeedUrl |-> Str(U1)]

ItemPool ==
    {DatedItem(<<"a">>, Str(Y2025), Str(Y2025)),
     DatedItem(<<"b">>, Str(Y2024), Str(Y2024)),
     DatedItem(<<"o">>, Str(Y0001), Str(Y0001)),
     DatedItem(<<"x">>, Undefined, Str(NotADate)),   \* pubDate does not parse
     DatedItem(<<"n">>, Undefined, Undefined)}

PadItem == DatedItem(<<"p">>, Str(Y2024), Str(Y2024))

Success(items) ==
    [feed |-> Feed(Str(FeedOneTitle), Undefined, Undefined, items),
     error |-> Null, url |-> Str(U1)]
Failure(url, error) == [feed |-> NullFeed, error |-> Str(error), url |-> url]

\* Failed results: one with a message, one with the empty message that an
\* Error constructed without a message has.
ItemlessResults == {Failure(Str(U2), Failed), Failure(Str(U2), <<>>)}

RECURSIVE SeqsUpTo(_, _)
\* The sequences over S of length at most n.
SeqsUpTo(S, n) ==
    IF n = 0 THEN {<<>>}
    ELSE {<<>>} \cup {<<x>> \o rest : x \in S, rest \in SeqsUpTo(S, n - 1)}

\* A layout says, slot by slot, what each result of the list is: an itemless
\* result, or a successful feed taking the next n of the items.
Slots ==
    {[feed |-> FALSE, take |-> 0, itemless |-> r] : r \in ItemlessResults}
    \cup {[feed |-> TRUE, take |-> n, itemless |-> Failure(Str(U2), Failed)]
          : n \in 0..MaxTotalItems}

RECURSIVE Takes(_)
Takes(layout) == IF layout = <<>> THEN 0 ELSE Head(layout).take + Takes(Tail(layout))

RECURSIVE Build(_, _)
Build(items, layout) ==
    IF layout = <<>> THEN <<>>
    ELSE IF Head(layout).feed
         THEN <<Success(SubSeq(items, 1, Head(layout).take))>>
              \o Build(SubSeq(items, Head(layout).take + 1, Len(items)), Tail(layout))
         ELSE <<Head(layout).itemless>> \o Build(items, Tail(layout))

\* The lists of at most MaxResults results holding at most MaxTotalItems items.
SmallInputs ==
    {Build(p[1], p[2]) :
        p \in {q \in SeqsUpTo(ItemPool, MaxTotalItems) \X SeqsUpTo(Slots, MaxResults)
               : Takes(q[2]) = Len(q[1])}}

\* Inputs that reach the cap of MaxItems (one long feed, with or without
\* failures), a result with neither feed nor error, and equal dates in two feeds.
LongFeed(n) == Success([i \in 1..n |-> PadItem])
OtherInputs ==
    {<<LongFeed(MaxItems + 1)>>,
     <<Failure(Str(U2), Failed), LongFeed(MaxItems)>>,
     <<LongFeed(MaxItems - 1), Failure(Undefined, Failed), Failure(Str(U2), Failed)>>,
     <<[feed |-> NullFeed, error |-> Null, url |-> Str(U2)],
       Success(<<DatedItem(<<"b">>, Str(Y2024), Str(Y2024)), PadItem>>),
       Success(<<DatedItem(<<"a">>, Str(Y2025), Str(Y2025)), PadItem>>)>>}

MergeInputs == SmallInputs \cup OtherInputs

\* request.nextUrl.toString(): the URL of a request for two sources.
RequestUrl == Str(<<"r", "?", "u", "&", "u">>)

(***************************************************************************)
(* The library called directly: mergeFeeds, then the serialisers           *)
(***************************************************************************)
NoFeed == NullFeed
NoRequest == [feeds |-> "absent", lowercase |-> FALSE, urls |-> <<>>, format |-> Null]
NoResponse == [status |-> 0, contentType |-> "", error |-> ""]
\* The home page not rendered.
NoPage == [feedList |-> <<>>, edits |-> 0, timer |-> FALSE, inflight |-> {},
           previewItems |-> [shown |-> FALSE, feeds |-> <<>>],
           mergedUrl |-> [set |-> FALSE, feeds |-> <<>>], isLoadingPreview |-> FALSE]

IdleGet ==
    /\ page = NoPage
    /\ request = NoRequest
    /\ net = <<>>
    /\ tasks = <<>>
    /\ order = <<>>
    /\ allResults = <<>>
    /\ handlerFeed = NoFeed
    /\ mergeCalls = 0
    /\ response = NoResponse
    /\ hpc = "idle"

NoCall == [fn |-> "none", state |-> "idle"]

InitMerge ==
    /\ call = NoCall
    /\ results \in MergeInputs
    /\ mergedFeed = NoFeed
    /\ xml = NoXml
    /\ json = NoJson
    /\ phase = "input"
    /\ IdleGet

MergeFeedsCall ==
    /\ phase = "input"
    /\ \E allItems \in sortOutcomes(allItemsOf(results)) :
          /\ mergedFeed' = mergedFrom(results, RequestUrl, Now, allItems)
          /\ results' = resultsAfterMerge(results, allItems)
    /\ phase' = "merged"
    /\ UNCHANGED <<xml, json>>
    /\ UNCHANGED getVars
    /\ UNCHANGED call

NextMerge == MergeFeedsCall

SpecMerge == InitMerge /\ [][NextMerge]_vars

(***************************************************************************)
(* Inputs of the serialisers: one successful feed with one item, varied in *)
(* its guid and link, in its categories, or in one of its texts.           *)
(***************************************************************************)
\* The values a guid or a category can hold: what rss-parser yields for an
\* element with or without attributes, and what JSON.parse can yield.
ValuePool ==
    {Undefined, Null, Str(<<>>), Str(<<"g">>), Str(<<"a", "&", "b">>),
     Num(<<"0">>), Num(<<"4", "2">>),
     Obj("string", <<"t">>),     \* { $: { isPermaLink: "false" }, _: "t" }
     Obj("string", <<>>),
     Obj("undefined", <<>>),     \* { $: { isPermaLink: "false" } }
     Obj("number", <<"7">>),     \* { _: 7 }
     Obj("object", <<>>)}        \* { _: { ... } }

CategoryPool ==
    {Str(<<"c">>), Obj("string", <<"c">>), Str(<<"<", "&">>), Obj("string", <<"<", "&">>),
     Obj("undefined", <<>>), Num(<<"7">>), Obj("object", <<>>)}

TextChars == {"a", "&", "<", ">", "]", "\"", "'", "EMDASH"}
Texts == SeqsUpTo(TextChars, MaxTextLen)

\* Characters of a snippet: kept ones (a letter, the two ends of \x20-\x7E,
\* newline, tab) and removed ones (em-dash, smart quotes, a control character).
StripChars == {"a", " ", "~", "LF", "TAB", "EMDASH", "LDQUO", "RDQUO", "NUL"}
StripTexts == SeqsUpTo(StripChars, 2)

Link == <<"l">>
Title == <<"t">>

RenderItem(title, link, content, contentSnippet, guid, categories) ==
    [title |-> title, link |-> link, pubDate |-> Str(Y2025), isoDate |-> Str(Y2025),
     contentSnippet |-> contentSnippet, content |-> content, creator |-> Undefined,
     guid |-> guid, categories |-> categories,
     sourceFeedTitle |-> Str(FeedOneTitle), sourceFeedUrl |-> Str(U1)]

PlainItem == RenderItem(Str(Title), Str(Link), Undefined, Undefined, Undefined, NoCategories)
ShortTexts == SeqsUpTo(TextChars, 1) \ {<<>>}

RenderItems ==
    {RenderItem(Str(Title), link, Undefined, Undefined, guid, NoCategories)
        : link \in {Undefined, Str(Link)}, guid \in ValuePool}
    \cup {RenderItem(Str(Title), Str(Link), Undefined, Undefined, Undefined, cats)
        : cats \in {NoCategories}
                   \cup {Categories(list) : list \in SeqsUpTo(CategoryPool, MaxCategories)}}
    \cup {RenderItem(Str(text), Str(Link), Undefined, Undefined, Undefined, NoCategories)
        : text \in Texts}
    \cup {RenderItem(Str(Title), Str(text), Undefined, Undefined, Undefined, NoCategories)
        : text \in Texts}
    \cup {RenderItem(Str(Title), Str(Link), Str(text), Str(Title), Undefined, NoCategories)
        : text \in Texts}
    \cup {RenderItem(Str(Title), Str(Link), Undefined, Str(text), Undefined, NoCategories)
        : text \in Texts}
    \cup {RenderItem(Str(Title), Str(Link), Str(text), Str(text), Undefined, NoCategories)
        : text \in StripTexts}
    \cup {RenderItem(Str(Title), Str(Link), Undefined, Str(text), Undefined, NoCategories)
        : text \in StripTexts}
    \cup {RenderItem(Str(Title), Str(Link), Undefined, Num(<<"7">>), Undefined, NoCategories)}
    \cup {[PlainItem EXCEPT !.pubDate = Str(text)] : text \in ShortTexts}
    \cup {[PlainItem EXCEPT !.pubDate = Undefined, !.isoDate = Str(text)] : text \in ShortTexts}
    \cup {[PlainItem EXCEPT !.sourceFeedTitle = Str(text)] : text \in ShortTexts}
    \cup {[PlainItem EXCEPT !.sourceFeedUrl = Str(text)] : text \in ShortTexts}

\* URLs of a failed source: a plain one, and ones with markup characters.
FailedUrls == {U2, <<"?", "a", "&", "b">>, <<"]", "]", ">">>, <<"<">>}

\* One feed with one item; or a feed titled with a text, with a plain item;
\* or one failed source, varied in its error message or in its URL.
RenderInputs ==
    {<<Success(<<item>>)>> : item \in RenderItems}
    \cup {<<Failure(Str(U2), error)>> : error \in Texts \ {<<>>}}
    \cup {<<Failure(Str(url), Failed)>> : url \in FailedUrls}
    \cup {<<[Success(<<PlainItem>>) EXCEPT !.feed.title = Str(text)]>> : text \in ShortTexts}

InitRender ==
    /\ call = NoCall
    /\ results \in RenderInputs
    /\ mergedFeed = NoFeed
    /\ xml = NoXml
    /\ json = NoJson
    /\ phase = "input"
    /\ IdleGet

GenerateRSSCall ==
    /\ phase = "merged"
    /\ IF generateRSSThrows(mergedFeed)
       THEN /\ phase' = "threw"
            /\ UNCHANGED xml
       ELSE /\ xml' = generateRSS(mergedFeed, RequestUrl, Now)
            /\ phase' = "rss"
    /\ UNCHANGED <<results, mergedFeed, json>>
    /\ UNCHANGED getVars
    /\ UNCHANGED call

GenerateJSONFeedCall ==
    /\ phase = "rss"
    /\ \E seed \in Seeds : json' = generateJSONFeed(mergedFeed, RequestUrl, seed)
    /\ phase' = "done"
    /\ UNCHANGED <<results, mergedFeed, xml>>
    /\ UNCHANGED getVars
    /\ UNCHANGED call

NextRender == MergeFeedsCall \/ GenerateRSSCall \/ GenerateJSONFeedCall

SpecRender == InitRender /\ [][NextRender]_vars

(***************************************************************************)
(* URLs (new URL(url)), for lower-case http(s) URLs without credentials    *)
(***************************************************************************)
Http == <<"h", "t", "t", "p", ":", "/", "/">>
Https == <<"h", "t", "t", "p", "s", ":", "/", "/">>

\* new URL(url) does not throw.
IsUrl(url) == StartsWith(url, Http) \/ StartsWith(url, Https)

\* new URL(url).protocol
protocol(url) ==
    IF StartsWith(url, Https) THEN <<"h", "t", "t", "p", "s", ":">>
    ELSE <<"h", "t", "t", "p", ":">>

AfterScheme(url) == SubSeq(url, Len(protocol(url)) + 3, Len(url))

\* The index of the first character of str that is in `stops`; Len(str) + 1
\* when there is none.
FirstOf(str, stops) ==
    LET at == {i \in 1..Len(str) : str[i] \in stops}
    IN  IF at = {} THEN Len(str) + 1 ELSE CHOOSE i \in at : \A j \in at : i <= j

\* new URL(url).origin
origin(url) ==
    LET rest == AfterScheme(url)
    IN  protocol(url) \o <<"/", "/">> \o SubSeq(rest, 1, FirstOf(rest, {"/", "?", "#"}) - 1)

\* new URL(url).pathname
pathname(url) ==
    LET rest == AfterScheme(url)
        path == SubSeq(rest, FirstOf(rest, {"/", "?", "#"}), FirstOf(rest, {"?", "#"}) - 1)
    IN  IF path = <<>> THEN <<"/">> ELSE path

(***************************************************************************)
(* discoverFeedFromHtml.  A reply to its fetch: whether the fetch came     *)
(* back, the content-type header (<<>> when missing), and the              *)
(* rel="alternate" link tags of the page in document order, each with the  *)
(* lower-cased value of its type attribute and its href (<<>> when the     *)
(* attribute is missing).                                                  *)
(***************************************************************************)
TextHtml == <<"t", "e", "x", "t", "/", "h", "t", "m", "l">>
ApplicationXhtml == <<"a", "p", "p", "l", "i", "c", "a", "t", "i", "o", "n", "/", "x", "h", "t", "m", "l">>
RssXml == <<"a", "p", "p", "l", "i", "c", "a", "t", "i", "o", "n", "/", "r", "s", "s", "+", "x", "m", "l">>
AtomXml == <<"a", "p", "p", "l", "i", "c", "a", "t", "i", "o", "n", "/", "a", "t", "o", "m", "+", "x", "m", "l">>
FeedJson == <<"a", "p", "p", "l", "i", "c", "a", "t", "i", "o", "n", "/", "f", "e", "e", "d", "+", "j", "s", "o", "n">>
ApplicationJson == <<"a", "p", "p", "l", "i", "c", "a", "t", "i", "o", "n", "/", "j", "s", "o", "n">>

\* The substrings that make a type a feed type.
FeedTypes == {RssXml, AtomXml, FeedJson, ApplicationJson}

LinkTag(type, href) == [type |-> type, href |-> href]

\* typeMatch && hrefMatch, and type.includes(...) of one of the feed types
IsFeedLink(tag) ==
    /\ tag.type # <<>>
    /\ tag.href # <<>>
    /\ \E feedType \in FeedTypes : Contains(tag.type, feedType)

\* contentType.includes("text/html") || contentType.includes("application/xhtml")
IsHtml(contentType) == Contains(contentType, TextHtml) \/ Contains(contentType, ApplicationXhtml)

\* The path with its last segment kept.
wholePath(path) == IF path[Len(path)] = "/" THEN SubSeq(path, 1, Len(path) - 1) ELSE path

\* pathParts = pathname.split("/"); pathParts.pop(); pathParts.join("/")
dirname(path) == SubSeq(path, 1, LastIndexOf(path, "/") - 1)

\* The value returned for the href of the chosen tag; null when new URL(url)
\* throws into the catch.
resolveHref(href, url) ==
    IF StartsWith(href, Http) \/ StartsWith(href, Https) THEN Str(href)
    ELSE IF ~IsUrl(url) THEN Null
    ELSE IF StartsWith(href, <<"/", "/">>) THEN Str(protocol(url) \o href)
    ELSE IF StartsWith(href, <<"/">>) THEN Str(origin(url) \o href)
    ELSE Str(origin(url) \o dirname(pathname(url)) \o <<"/">> \o href)

discoverFeedFromHtml(reply, url) ==
    IF ~reply.ok THEN Null
    ELSE IF ~IsHtml(reply.contentType) THEN Null
    ELSE LET feedTags == SelectSeq(reply.links, IsFeedLink)
         IN  IF feedTags = <<>> THEN Null ELSE resolveHref(feedTags[1].href, url)

(***************************************************************************)
(* tryParseAsJSONFeed.  A reply to its fetch: whether the fetch came back, *)
(* whether the content type is JSON, whether the body parses, and the      *)
(* parsed document.                                                        *)
(***************************************************************************)
JsonFeedOrg == <<"j", "s", "o", "n", "f", "e", "e", "d", ".", "o", "r", "g">>

\* One item of a JSON Feed document converted to a CustomItem.
customItemOf(item, feedTitle, url) ==
    [title |-> item.title,
     link |-> Or(item.url, item.external_url),
     pubDate |-> item.date_published,
     content |-> item.content_html,
     contentSnippet |-> Or(item.content_text, item.summary),
     creator |-> item.author,
     isoDate |-> item.date_published,
     guid |-> item.id,
     categories |-> item.tags,
     sourceFeedTitle |-> feedTitle,
     sourceFeedUrl |-> Str(url)]

jsonFeedToCustomFeed(doc, url) ==
    Feed(doc.title, doc.description, doc.home_page_url,
         [i \in 1..Len(doc.items) |-> customItemOf(doc.items[i], doc.title, url)])

\* The feed returned, NullFeed standing for null.
tryParseAsJSONFeed(reply, url) ==
    IF ~reply.ok THEN NullFeed
    ELSE IF ~reply.json THEN NullFeed
    ELSE IF ~reply.parses THEN NullFeed
    ELSE IF ~Truthy(reply.doc.version) \/ ~Contains(reply.doc.version.s, JsonFeedOrg) THEN NullFeed
    ELSE jsonFeedToCustomFeed(reply.doc, url)

(***************************************************************************)
(* parseFeedFromUrl and parseFeedFromDiscoveredUrl.  A reply to            *)
(* parser.parseURL is the feed parsed or the message of the Error thrown.  *)
(***************************************************************************)
\* { ...feed, items: feed.items.map(item => ({ ...item, sourceFeedTitle, sourceFeedUrl })) }
withSource(feed, url) ==
    [feed EXCEPT !.items = [i \in 1..Len(feed.items) |->
        [feed.items[i] EXCEPT !.sourceFeedTitle = feed.title, !.sourceFeedUrl = Str(url)]]]

Fulfilled(value) == [state |-> "fulfilled", value |-> value]
Rejected(value) == [state |-> "rejected", value |-> value]

\* return { feed, error: null }, then { ...result, url } in the handler
resolveFeed(feed, url) == Fulfilled([feed |-> feed, error |-> Null, url |-> Str(url)])

\* error instanceof Error ? error.message : String(error), for an Error
errorMessage(message) == Str(message)

\* A catch that reports a message of its own instead of the error's.
catchOriginalOwnMessage(message, url) ==
    Fulfilled([feed |-> NullFeed, error |-> Str(Failed), url |-> Str(url)])

\* The original URL's parse threw and discovery found nothing.
catchOriginal(message, url) ==
    Fulfilled([feed |-> NullFeed, error |-> errorMessage(message), url |-> Str(url)])

\* The failure escaping instead of being caught.
rethrowDiscovered(message, url) ==
    Rejected([feed |-> NullFeed, error |-> errorMessage(message), url |-> Str(url)])

\* The catch of parseFeedFromDiscoveredUrl.
catchDiscovered(message, url) ==
    Fulfilled([feed |-> NullFeed, error |-> errorMessage(message), url |-> Str(url)])

(***************************************************************************)
(* What the network answers to one source: the replies to the JSON probe,  *)
(* to parser.parseURL and to the discovery fetch of the source's URL, and  *)
(* to the probe and the parse of the discovered URL.                       *)
(***************************************************************************)
NoDoc == [version |-> Undefined, title |-> Undefined, description |-> Undefined,
          home_page_url |-> Undefined, items |-> <<>>]
JsonDocItem ==
    [id |-> Str(<<"j">>), url |-> Undefined, external_url |-> Undefined,
     title |-> Str(<<"j">>), content_html |-> Undefined, content_text |-> Undefined,
     summary |-> Undefined, date_published |-> Str(Y2025), author |-> Undefined,
     tags |-> NoCategories]
JsonDoc == [version |-> Str(JsonFeedVersion), title |-> Str(<<"J">>), description |-> Undefined,
            home_page_url |-> Undefined, items |-> <<JsonDocItem>>]

ProbeReply(ok, isJson, parses, doc) == [ok |-> ok, json |-> isJson, parses |-> parses, doc |-> doc]
ProbeDown == ProbeReply(FALSE, FALSE, FALSE, NoDoc)
ProbeXml == ProbeReply(TRUE, FALSE, FALSE, NoDoc)
ProbeBadJson == ProbeReply(TRUE, TRUE, FALSE, NoDoc)
ProbeOtherJson == ProbeReply(TRUE, TRUE, TRUE, [JsonDoc EXCEPT !.version = Undefined])
ProbeJsonFeed == ProbeReply(TRUE, TRUE, TRUE, JsonDoc)
\* A JSON Feed whose item has "content_text": 7.
ProbeJsonFeedNumeric ==
    ProbeReply(TRUE, TRUE, TRUE,
               [JsonDoc EXCEPT !.items = <<[JsonDocItem EXCEPT !.content_text = Num(<<"7">>)]>>])

\* An item as rss-parser yields it, before it is stamped with its source.
RawItem(title, date) ==
    [DatedItem(title, Str(date), Str(date)) EXCEPT
        !.sourceFeedTitle = Undefined, !.sourceFeedUrl = Undefined]
RssFeed == Feed(Str(<<"R">>), Undefined, Undefined,
                <<RawItem(<<"a">>, Y2025), RawItem(<<"b">>, Y2024)>>)

NotRecognized == <<"N", "o", "t", " ", "a", " ", "f", "e", "e", "d">>
Status404 == <<"S", "t", "a", "t", "u", "s", " ", "4", "0", "4">>
ParseOk == [ok |-> TRUE, feed |-> RssFeed, message |-> <<>>]
\* A feed whose channel has no <title>: rss-parser leaves feed.title unset.
UntitledFeed == Feed(Undefined, Undefined, Undefined, <<RawItem(<<"u">>, Y2026)>>)
ParseOkUntitled == [ok |-> TRUE, feed |-> UntitledFeed, message |-> <<>>]
ParseThrows(message) == [ok |-> FALSE, feed |-> NullFeed, message |-> message]

TextCss == <<"t", "e", "x", "t", "/", "c", "s", "s">>
PageDown == [ok |-> FALSE, contentType |-> <<>>, links |-> <<>>]
NotHtml == [ok |-> TRUE, contentType |-> ApplicationJson, links |-> <<>>]
PageWithoutFeedLink ==
    [ok |-> TRUE, contentType |-> TextHtml,
     links |-> <<LinkTag(TextCss, <<"s">>), LinkTag(RssXml, <<>>)>>]
PageWithFeedLink(href) ==
    [ok |-> TRUE, contentType |-> TextHtml,
     links |-> <<LinkTag(<<>>, <<"x">>), LinkTag(AtomXml, href), LinkTag(RssXml, <<"y">>)>>]
AbsoluteHref == Http \o <<"c", "/", "f">>

Script(probe, parse, discover, dprobe, dparse) ==
    [probe |-> probe, parse |-> parse, discover |-> discover,
     dprobe |-> dprobe, dparse |-> dparse]

\* One script per way through parseFeedFromUrl; the replies a way never asks
\* for are fixed.  A site that is down makes Node's fetch and http fail with
\* an error whose message can be empty.
Scripts ==
    {Script(ProbeJsonFeed, ParseOk, NotHtml, ProbeXml, ParseOk),
     Script(ProbeJsonFeedNumeric, ParseOk, NotHtml, ProbeXml, ParseOk),
     Script(ProbeXml, ParseOk, NotHtml, ProbeXml, ParseOk),
     Script(ProbeOtherJson, ParseThrows(NotRecognized), NotHtml, ProbeXml, ParseOk),
     Script(ProbeDown, ParseThrows(<<>>), PageDown, ProbeXml, ParseOk),
     Script(ProbeXml, ParseThrows(NotRecognized), PageWithoutFeedLink, ProbeXml, ParseOk),
     Script(ProbeBadJson, ParseThrows(NotRecognized), PageWithFeedLink(AbsoluteHref),
            ProbeJsonFeed, ParseOk),
     Script(ProbeXml, ParseThrows(NotRecognized), PageWithFeedLink(<<"/", "f">>),
            ProbeXml, ParseOkUntitled),
     Script(ProbeXml, ParseThrows(NotRecognized), PageWithFeedLink(<<"f">>),
            ProbeDown, ParseThrows(Status404))}

(***************************************************************************)
(* GET: the request handler                                                *)
(***************************************************************************)
\* The searchParams of a request: the outcome of decoding the `feeds`
\* parameter when there is one ("valid": it decompresses and JSON.parse
\* returns `decoded`), whether its text is all lower case, the URLs given
\* (the elements of `decoded` when it is an array, or the `url` parameters),
\* and the `format` parameter (null when absent).  The URL lists alternate
\* two URLs, or name one URL twice.
Array == [t |-> "array", s |-> <<>>, u |-> "undefined"]
\* What JSON.parse returns for a payload that is not an array:
\* null, "", "a", 0, 7, false, true, {}.
NotArrays ==
    {Null, Str(<<>>), Str(<<"a">>), Num(<<"0">>), Num(<<"7">>),
     Bool(<<"f", "a", "l", "s", "e">>), Bool(<<"t", "r", "u", "e">>), Obj("undefined", <<>>)}

UrlLists ==
    {[i \in 1..n |-> IF i % 2 = 1 THEN U1 ELSE U2] : n \in 0..MaxUrls} \cup {<<U1, U1>>}

Requests ==
    {[feeds |-> f, lowercase |-> FALSE, decoded |-> Array, urls |-> us, format |-> fmt]
        : f \in {"absent", "valid"}, us \in UrlLists,
          fmt \in {Null, Str(<<"j", "s", "o", "n">>)}}
    \cup {[feeds |-> "valid", lowercase |-> FALSE, decoded |-> d, urls |-> <<>>, format |-> Null]
        : d \in NotArrays}
    \cup {[feeds |-> "invalid", lowercase |-> l, decoded |-> Undefined, urls |-> <<>>,
           format |-> Null]
        : l \in BOOLEAN}

\* !urls || urls.length === 0
NoUrls(req) ==
    IF req.decoded = Array THEN Len(req.urls) = 0
    ELSE ~Truthy(req.decoded) \/ (req.decoded.t = "string" /\ Len(req.decoded.s) = 0)

NoResult == [feed |-> NullFeed, error |-> Null, url |-> Undefined]

\* The requests the library sends, each with the User-Agent header its code
\* sets (Undefined when it sets none and the runtime's own goes out).
USER_AGENT == <<"r", "s", "s", "r", "s", "s", "r", "s", "s", "r", "s", "s", " ", "(", "h", "t", "t", "p", "s", ":", "/", "/", "r", "s", "s", "r", "s", "s", "r", "s", "s", "r", "s", "s", ".", "c", "o", "m", ")">>
Request(fn, url, userAgent) == [fn |-> fn, url |-> url, userAgent |-> userAgent]
\* fetch(url, { headers: { Accept: ... } }) of tryParseAsJSONFeed
probeRequest(url) == Request("tryParseAsJSONFeed", url, Undefined)
\* parser.parseURL(url), with the headers of the parser's configuration
parseRequest(url) == Request("parser.parseURL", url, Str(USER_AGENT))
\* fetch(url, { headers: { "User-Agent": USER_AGENT, Accept: ... } })
discoverRequest(url) == Request("discoverFeedFromHtml", url, Str(USER_AGENT))

\* The promise of urls.map(async (url) => ...) for one URL, started: its
\* first fetch, the JSON probe, is in flight.
NewTask(url) ==
    [url |-> url, pc |-> "probe", caught |-> <<>>, feedUrl |-> <<>>,
     sent |-> <<probeRequest(url)>>, state |-> "pending", value |-> NoResult]

\* A barrier that passes once one promise is fulfilled.
FirstFulfilledState(ts) ==
    IF \E i \in 1..Len(ts) : ts[i].state = "rejected" THEN "rejected"
    ELSE IF \E i \in 1..Len(ts) : ts[i].state = "fulfilled" THEN "fulfilled"
    ELSE "pending"

\* Promise.all(promises): rejected once a promise is rejected, fulfilled
\* once all are fulfilled.
PromiseAllState(ts) ==
    IF \E i \in 1..Len(ts) : ts[i].state = "rejected" THEN "rejected"
    ELSE IF \A i \in 1..Len(ts) : ts[i].state = "fulfilled" THEN "fulfilled"
    ELSE "pending"

\* The values collected in the order the promises settled in.
ValuesAsSettled(ts, settled) == [i \in 1..Len(settled) |-> ts[settled[i]].value]

\* The array Promise.all fulfils with: the values in the order of the
\* promises passed in, whatever order `settled` they settled in.
PromiseAllValues(ts, settled) == [i \in 1..Len(ts) |-> ts[i].value]

BadRequest(error) == [status |-> 400, contentType |-> "application/json", error |-> error]
FeedResponse(contentType) == [status |-> 200, contentType |-> contentType, error |-> ""]
ServerError == [status |-> 500, contentType |-> "", error |-> "unhandled rejection"]
\* An exception thrown by the handler's own code and caught by nobody.
Uncaught(error) == [status |-> 500, contentType |-> "", error |-> error]

Init ==
    /\ call = NoCall
    /\ page = NoPage
    /\ request \in Requests
    /\ net \in [1..Len(request.urls) -> Scripts]
    /\ tasks = <<>>
    /\ order = <<>>
    /\ allResults = <<>>
    /\ handlerFeed = NoFeed
    /\ mergeCalls = 0
    /\ response = NoResponse
    /\ hpc = "start"
    /\ results = <<>>
    /\ mergedFeed = NoFeed
    /\ xml = NoXml
    /\ json = NoJson
    /\ phase = "idle"

\* GET up to `await Promise.all(feedPromises)`.
Start ==
    /\ hpc = "start"
    /\ IF request.feeds = "invalid"
       THEN /\ response' = BadRequest(IF request.lowercase THEN "all lowercase"
                                      ELSE "cannot parse that payload")
            /\ hpc' = "done"
            /\ UNCHANGED tasks
       ELSE IF NoUrls(request)
       THEN /\ response' = BadRequest("No RSS feed URLs provided")
            /\ hpc' = "done"
            /\ UNCHANGED tasks
       ELSE IF request.decoded # Array
       THEN /\ response' = Uncaught("urls.map is not a function")
            /\ hpc' = "done"
            /\ UNCHANGED tasks
       ELSE /\ tasks' = [i \in 1..Len(request.urls) |-> NewTask(request.urls[i])]
            /\ hpc' = "awaiting"
            /\ UNCHANGED response
    /\ UNCHANGED <<request, net, order, allResults, handlerFeed, mergeCalls, call, page>>
    /\ UNCHANGED libVars

Settle(i, outcome) ==
    /\ tasks' = [tasks EXCEPT ![i] = [@ EXCEPT !.pc = "done", !.state = outcome.state,
                                               !.value = outcome.value]]
    /\ order' = Append(order, i)

TaskFrame == UNCHANGED <<request, net, allResults, handlerFeed, mergeCalls, response, hpc, call,
                          page>>
                 /\ UNCHANGED libVars

InvalidJsonFeed == <<"I", "n", "v", "a", "l", "i", "d", " ", "J", "S", "O", "N", " ", "F", "e", "e", "d">>

\* A probe that reports a JSON reply that is not a JSON Feed as the source's
\* error, as parseFeedFromJsonFeed does for a string.
JsonProbeReportingInvalid ==
    \E i \in 1..Len(tasks) :
        /\ tasks[i].pc = "probe"
        /\ LET jsonFeed == tryParseAsJSONFeed(net[i].probe, tasks[i].url)
           IN  IF ~jsonFeed.null
               THEN Settle(i, resolveFeed(jsonFeed, tasks[i].url))
               ELSE IF net[i].probe.ok /\ net[i].probe.json
               THEN Settle(i, catchOriginal(InvalidJsonFeed, tasks[i].url))
               ELSE /\ tasks' = [tasks EXCEPT ![i].pc = "parse",
                                              ![i].sent = Append(@, parseRequest(tasks[i].url))]
                    /\ UNCHANGED order
        /\ TaskFrame

\* parseFeedFromUrl: the JSON probe of the URL comes back.
JsonProbe ==
    \E i \in 1..Len(tasks) :
        /\ tasks[i].pc = "probe"
        /\ LET jsonFeed == tryParseAsJSONFeed(net[i].probe, tasks[i].url)
           IN  IF ~jsonFeed.null
               THEN Settle(i, resolveFeed(jsonFeed, tasks[i].url))
               ELSE /\ tasks' = [tasks EXCEPT ![i].pc = "parse",
                                              ![i].sent = Append(@, parseRequest(tasks[i].url))]
                    /\ UNCHANGED order
        /\ TaskFrame

\* A parser that hands a call the reply to whichever of the parses in flight
\* came back last.
ParseURLSharingReplies ==
    \E i \in 1..Len(tasks) : \E j \in 1..Len(tasks) :
        /\ tasks[i].pc = "parse"
        /\ tasks[j].pc = "parse"
        /\ IF net[j].parse.ok
           THEN Settle(i, resolveFeed(withSource(net[j].parse.feed, tasks[i].url), tasks[i].url))
           ELSE /\ tasks' = [tasks EXCEPT ![i].pc = "discover",
                                          ![i].caught = net[j].parse.message,
                                          ![i].sent = Append(@, discoverRequest(tasks[i].url))]
                /\ UNCHANGED order
        /\ TaskFrame

\* parseFeedFromUrl: parser.parseURL(url) comes back.
ParseURL ==
    \E i \in 1..Len(tasks) :
        /\ tasks[i].pc = "parse"
        /\ IF net[i].parse.ok
           THEN Settle(i, resolveFeed(withSource(net[i].parse.feed, tasks[i].url), tasks[i].url))
           ELSE /\ tasks' = [tasks EXCEPT ![i].pc = "discover",
                                          ![i].caught = net[i].parse.message,
                                          ![i].sent = Append(@, discoverRequest(tasks[i].url))]
                /\ UNCHANGED order
        /\ TaskFrame

\* parseFeedFromUrl, in its catch: discoverFeedFromHtml(url) comes back.
Discover ==
    \E i \in 1..Len(tasks) :
        /\ tasks[i].pc = "discover"
        /\ LET discoveredFeedUrl == discoverFeedFromHtml(net[i].discover, tasks[i].url)
           IN  IF Truthy(discoveredFeedUrl)
               THEN /\ tasks' = [tasks EXCEPT ![i].pc = "dprobe",
                                              ![i].feedUrl = discoveredFeedUrl.s,
                                              ![i].sent = Append(@, probeRequest(discoveredFeedUrl.s))]
                    /\ UNCHANGED order
               ELSE Settle(i, catchOriginal(tasks[i].caught, tasks[i].url))
        /\ TaskFrame

\* parseFeedFromDiscoveredUrl: the JSON probe of the discovered URL comes back.
DiscoveredJsonProbe ==
    \E i \in 1..Len(tasks) :
        /\ tasks[i].pc = "dprobe"
        /\ LET jsonFeed == tryParseAsJSONFeed(net[i].dprobe, tasks[i].feedUrl)
           IN  IF ~jsonFeed.null
               THEN Settle(i, resolveFeed(jsonFeed, tasks[i].url))
               ELSE /\ tasks' = [tasks EXCEPT ![i].pc = "dparse",
                                              ![i].sent = Append(@, parseRequest(tasks[i].feedUrl))]
                    /\ UNCHANGED order
        /\ TaskFrame

\* A parse of the discovered URL that, when it throws, goes on to discover a
\* feed at the discovered URL (as long as fewer than 7 requests went out).
DiscoveredParseURLThenDiscover ==
    \E i \in 1..Len(tasks) :
        /\ tasks[i].pc = "dparse"
        /\ IF net[i].dparse.ok
           THEN Settle(i, resolveFeed(withSource(net[i].dparse.feed, tasks[i].feedUrl),
                                      tasks[i].url))
           ELSE IF Len(tasks[i].sent) < 7
           THEN /\ tasks' = [tasks EXCEPT ![i].pc = "discover",
                                          ![i].caught = net[i].dparse.message,
                                          ![i].sent = Append(@, discoverRequest(tasks[i].feedUrl))]
                /\ UNCHANGED order
           ELSE Settle(i, catchDiscovered(net[i].dparse.message, tasks[i].url))
        /\ TaskFrame

\* parseFeedFromDiscoveredUrl: parser.parseURL(feedUrl) comes back.
DiscoveredParseURL ==
    \E i \in 1..Len(tasks) :
        /\ tasks[i].pc = "dparse"
        /\ IF net[i].dparse.ok
           THEN Settle(i, resolveFeed(withSource(net[i].dparse.feed, tasks[i].feedUrl),
                                      tasks[i].url))
           ELSE Settle(i, catchDiscovered(net[i].dparse.message, tasks[i].url))
        /\ TaskFrame

IsJsonFormat(format) ==
    Or(format, Str(<<"r", "s", "s">>)).s \in {<<"j", "s", "o", "n">>,
                                             <<"j", "s", "o", "n", "f", "e", "e", "d">>}

\* GET from the settling of Promise.all to the response.
Respond ==
    /\ hpc = "awaiting"
    /\ PromiseAllState(tasks) # "pending"
    /\ hpc' = "done"
    /\ IF PromiseAllState(tasks) = "rejected"
       THEN /\ response' = ServerError
            /\ UNCHANGED <<allResults, handlerFeed, mergeCalls, xml, json>>
       ELSE /\ allResults' = PromiseAllValues(tasks, order)
            /\ handlerFeed' \in mergeFeeds(allResults', RequestUrl, Now)
            /\ mergeCalls' = mergeCalls + 1
            /\ IF IsJsonFormat(request.format)
               THEN /\ \E seed \in Seeds :
                          json' = generateJSONFeed(handlerFeed', RequestUrl, seed)
                    /\ response' = FeedResponse("application/feed+json; charset=utf-8")
                    /\ UNCHANGED xml
               ELSE IF generateRSSThrows(handlerFeed')
               THEN /\ response' = Uncaught("content.replace is not a function")
                    /\ UNCHANGED <<xml, json>>
               ELSE /\ xml' = generateRSS(handlerFeed', RequestUrl, Now)
                    /\ response' = FeedResponse("application/rss+xml; charset=utf-8")
                    /\ UNCHANGED json
    /\ UNCHANGED <<request, net, tasks, order, results, mergedFeed, phase, call, page>>

Next ==
    \/ Start
    \/ JsonProbe
    \/ ParseURL
    \/ Discover
    \/ DiscoveredJsonProbe
    \/ DiscoveredParseURL
    \/ Respond

Spec == Init /\ [][Next]_vars

\* Every request sent comes back: a step of a source that can be taken is
\* taken in the end.
SourceStep == JsonProbe \/ ParseURL \/ Discover \/ DiscoveredJsonProbe \/ DiscoveredParseURL
SpecLive == Spec /\ WF_vars(SourceStep)

(***************************************************************************)
(* discoverFeedFromHtml called directly, on a page URL and the reply to    *)
(* its fetch                                                               *)
(***************************************************************************)
BlogDir == <<"h", "t", "t", "p", "s", ":", "/", "/", "e", "x", "a", "m", "p", "l", "e", ".", "c", "o", "m", "/", "b", "l", "o", "g", "/">>
BlogPage == <<"h", "t", "t", "p", "s", ":", "/", "/", "e", "x", "a", "m", "p", "l", "e", ".", "c", "o", "m", "/", "b", "l", "o", "g", "/", "p", "a", "g", "e", ".", "h", "t", "m", "l">>
SiteRoot == <<"h", "t", "t", "p", "s", ":", "/", "/", "e", "x", "a", "m", "p", "l", "e", ".", "c", "o", "m", "/">>
BareHost == <<"h", "t", "t", "p", ":", "/", "/", "a">>
PortAndQuery == <<"h", "t", "t", "p", ":", "/", "/", "a", ":", "8", "/", "p", "/", "q", "?", "r", "=", "/", "s">>
PageUrls == {BlogDir, BlogPage, SiteRoot, BareHost, PortAndQuery}

AbsoluteFeed == <<"h", "t", "t", "p", "s", ":", "/", "/", "e", "x", "a", "m", "p", "l", "e", ".", "c", "o", "m", "/", "f", "e", "e", "d", ".", "x", "m", "l">>
HttpFeed == <<"h", "t", "t", "p", ":", "/", "/", "c", "/", "f">>
SchemeRelativeFeed == <<"/", "/", "c", "d", "n", ".", "e", "x", "a", "m", "p", "l", "e", ".", "c", "o", "m", "/", "f", "e", "e", "d", ".", "x", "m", "l">>
RootRelativeFeed == <<"/", "b", "l", "o", "g", "/", "f", "e", "e", "d", ".", "x", "m", "l">>
RelativeFeed == <<"f", "e", "e", "d", ".", "x", "m", "l">>
NestedRelativeFeed == <<"d", "/", "f">>
Hrefs == {AbsoluteFeed, HttpFeed, SchemeRelativeFeed, RootRelativeFeed, RelativeFeed,
          NestedRelativeFeed}

JsonOembed == <<"a", "p", "p", "l", "i", "c", "a", "t", "i", "o", "n", "/", "j", "s", "o", "n", "+", "o", "e", "m", "b", "e", "d">>
XhtmlXml == <<"a", "p", "p", "l", "i", "c", "a", "t", "i", "o", "n", "/", "x", "h", "t", "m", "l", "+", "x", "m", "l">>
HtmlUtf8 == <<"t", "e", "x", "t", "/", "h", "t", "m", "l", ";", " ", "c", "h", "a", "r", "s", "e", "t", "=", "u", "t", "f", "-", "8">>
ContentTypes == {TextHtml, HtmlUtf8, XhtmlXml, ApplicationJson, <<>>}

\* Link tags: feeds of the four kinds, a stylesheet, a tag without a type, a
\* tag without an href, and the oEmbed link of a WordPress page.
TagPool ==
    {LinkTag(RssXml, <<"/", "r">>), LinkTag(AtomXml, <<"/", "a">>),
     LinkTag(FeedJson, <<"/", "f">>), LinkTag(ApplicationJson, <<"/", "j">>),
     LinkTag(TextCss, <<"/", "s">>), LinkTag(<<>>, <<"/", "x">>),
     LinkTag(RssXml, <<>>), LinkTag(JsonOembed, <<"/", "o">>)}

Page(contentType, links) == [ok |-> TRUE, contentType |-> contentType, links |-> links]

DiscoverCalls ==
    {[url |-> url, reply |-> Page(TextHtml, <<LinkTag(RssXml, href)>>)]
        : url \in PageUrls, href \in Hrefs}
    \cup {[url |-> url, reply |-> PageDown] : url \in PageUrls}
    \cup {[url |-> SiteRoot, reply |-> Page(contentType, links)]
        : contentType \in ContentTypes, links \in SeqsUpTo(TagPool, MaxLinks)}

IdleLibrary ==
    /\ results = <<>>
    /\ mergedFeed = NoFeed
    /\ xml = NoXml
    /\ json = NoJson
    /\ phase = "idle"

InitDiscover ==
    /\ \E c \in DiscoverCalls :
          call = [fn |-> "discoverFeedFromHtml", state |-> "called",
                  url |-> c.url, reply |-> c.reply, value |-> Null]
    /\ IdleLibrary
    /\ IdleGet

DiscoverFeedFromHtmlCall ==
    /\ call.fn = "discoverFeedFromHtml"
    /\ call.state = "called"
    /\ call' = [call EXCEPT !.state = "returned",
                            !.value = discoverFeedFromHtml(call.reply, call.url)]
    /\ UNCHANGED libVars
    /\ UNCHANGED getVars

NextDiscover == DiscoverFeedFromHtmlCall

SpecDiscover == InitDiscover /\ [][NextDiscover]_vars

(***************************************************************************)
(* parseFeedFromJsonFeed called directly on a JSON text, and its result    *)
(* passed through mergeFeeds and the serialisers.  A text is whether       *)
(* JSON.parse accepts it and the document parsed; the `author` of a        *)
(* document item stands for item.author?.name.                             *)
(***************************************************************************)
InvalidVersion == <<"I", "n", "v", "a", "l", "i", "d", " ", "J", "S", "O", "N", " ", "F", "e", "e", "d", ":", " ", "m", "i", "s", "s", "i", "n", "g", " ", "o", "r", " ", "i", "n", "v", "a", "l", "i", "d", " ", "v", "e", "r", "s", "i", "o", "n">>
SyntaxError == <<"U", "n", "e", "x", "p", "e", "c", "t", "e", "d", " ", "t", "o", "k", "e", "n">>
NotAFunction == <<"j", "s", "o", "n", "F", "e", "e", "d", ".", "v", "e", "r", "s", "i", "o", "n", ".", "i", "n", "c", "l", "u", "d", "e", "s", " ", "i", "s", " ", "n", "o", "t", " ", "a", " ", "f", "u", "n", "c", "t", "i", "o", "n">>

\* The result returned: { feed, error }, with no url.
parseFeedFromJsonFeed(text, sourceUrl) ==
    IF ~text.parses
    THEN [feed |-> NullFeed, error |-> errorMessage(SyntaxError), url |-> Undefined]
    ELSE IF ~Truthy(text.doc.version)
    THEN [feed |-> NullFeed, error |-> Str(InvalidVersion), url |-> Undefined]
    ELSE IF text.doc.version.t # "string"
    THEN [feed |-> NullFeed, error |-> errorMessage(NotAFunction), url |-> Undefined]
    ELSE IF ~Contains(text.doc.version.s, JsonFeedOrg)
    THEN [feed |-> NullFeed, error |-> Str(InvalidVersion), url |-> Undefined]
    ELSE [feed |-> Feed(text.doc.title, text.doc.description, text.doc.home_page_url,
                        [i \in 1..Len(text.doc.items) |->
                            [customItemOf(text.doc.items[i], text.doc.title, <<>>)
                                EXCEPT !.sourceFeedUrl = sourceUrl]]),
          error |-> Null, url |-> Undefined]

\* A complete item, and items that differ from it in one member.
FullDocItem ==
    [id |-> Str(<<"1">>), url |-> Str(<<"u">>), external_url |-> Undefined,
     title |-> Str(<<"t">>), content_html |-> Str(<<"h">>), content_text |-> Str(<<"x">>),
     summary |-> Undefined, date_published |-> Str(Y2025), author |-> Str(<<"n">>),
     tags |-> Categories(<<Str(<<"c">>)>>)]

DocItems ==
    {FullDocItem}
    \cup {[FullDocItem EXCEPT !.id = id] : id \in {Str(<<"2">>), Num(<<"7">>)}}
    \cup {[FullDocItem EXCEPT !.url = Undefined, !.external_url = e]
            : e \in {Undefined, Str(<<"e">>)}}
    \cup {[FullDocItem EXCEPT !.external_url = Str(<<"e">>)]}
    \cup {[FullDocItem EXCEPT !.content_text = t, !.summary = Str(<<"s">>)]
            : t \in {Undefined, Str(<<"x">>)}}
    \cup {[FullDocItem EXCEPT !.content_html = Undefined]}
    \cup {[FullDocItem EXCEPT !.title = Undefined]}
    \cup {[FullDocItem EXCEPT !.author = Undefined]}
    \cup {[FullDocItem EXCEPT !.date_published = d] : d \in {Undefined, Str(Y2024), Str(Y2026)}}
    \cup {[FullDocItem EXCEPT !.tags = t]
            : t \in {NoCategories, Categories(<<Str(<<"c">>), Str(<<"d">>)>>)}}

\* Documents of one item, or of the complete item and another in either
\* order; and texts that are no JSON Feed.
JsonTexts ==
    {[parses |-> TRUE, doc |-> [JsonDoc EXCEPT !.items = items]]
        : items \in {<<item>> : item \in DocItems}
                    \cup {<<FullDocItem, item>> : item \in DocItems \ {FullDocItem}}
                    \cup {<<item, FullDocItem>> : item \in DocItems \ {FullDocItem}}}
    \cup {[parses |-> FALSE, doc |-> NoDoc],
          [parses |-> TRUE, doc |-> [JsonDoc EXCEPT !.version = Undefined]],
          [parses |-> TRUE, doc |-> [JsonDoc EXCEPT !.version = Num(<<"1">>)]],
          [parses |-> TRUE, doc |-> [JsonDoc EXCEPT !.version = Str(<<"1">>)]]}

InitParse ==
    /\ \E text \in JsonTexts : \E sourceUrl \in {Undefined, Str(U1)} :
          call = [fn |-> "parseFeedFromJsonFeed", state |-> "called",
                  text |-> text, sourceUrl |-> sourceUrl, value |-> NoResult]
    /\ IdleLibrary
    /\ IdleGet

\* parseFeedFromJsonFeed returns, and its result is the list for mergeFeeds.
ParseFeedFromJsonFeedCall ==
    /\ call.fn = "parseFeedFromJsonFeed"
    /\ call.state = "called"
    /\ call' = [call EXCEPT !.state = "returned",
                            !.value = parseFeedFromJsonFeed(call.text, call.sourceUrl)]
    /\ results' = <<call'.value>>
    /\ phase' = "input"
    /\ UNCHANGED <<mergedFeed, xml, json>>
    /\ UNCHANGED getVars

NextParse ==
    \/ ParseFeedFromJsonFeedCall
    \/ MergeFeedsCall
    \/ GenerateRSSCall
    \/ GenerateJSONFeedCall

SpecParse == InitParse /\ [][NextParse]_vars

(***************************************************************************)
(* Home, the home page.  feedList is kept as its trimmed, non-empty lines. *)
(* previewItems is the empty list or the items parsed from the response to *)
(* the request for some list of feeds; mergedUrl is '' or the merge URL of *)
(* some list of feeds (its compressed form names the list).  A preview     *)
(* request in flight is numbered by the edit it was started after.         *)
(***************************************************************************)
NotAUrl == <<"x">>
FeedLists == {<<>>, <<NotAUrl>>, <<U1>>, <<U2>>, <<U1, NotAUrl>>}

\* new URL(url) does not throw: url starts with a scheme, letters up to a
\* colon (the URLs of the model have no digit, "+", "-" or "." there).
SchemeLetters == {"h", "t", "p", "s", "x"}
isValidUrl(url) ==
    \E i \in 2..Len(url) :
        /\ url[i] = ":"
        /\ \A j \in 1..(i - 1) : url[j] \in SchemeLetters

\* getFeedsFromList().filter(feed => isValidUrl(feed))
validFeedsOf(feedList) == SelectSeq(feedList, isValidUrl)

NoPreview == [shown |-> FALSE, feeds |-> <<>>]
Preview(feeds) == [shown |-> TRUE, feeds |-> feeds]
NoMergedUrl == [set |-> FALSE, feeds |-> <<>>]
MergedUrl(feeds) == [set |-> TRUE, feeds |-> feeds]

\* The page after its first render and effect, with the empty feed list.
InitPage ==
    /\ page = [NoPage EXCEPT !.previewItems = NoPreview]
    /\ call = NoCall
    /\ IdleLibrary
    /\ request = NoRequest
    /\ net = <<>>
    /\ tasks = <<>>
    /\ order = <<>>
    /\ allResults = <<>>
    /\ handlerFeed = NoFeed
    /\ mergeCalls = 0
    /\ response = NoResponse
    /\ hpc = "idle"

PageFrame ==
    /\ UNCHANGED libVars
    /\ UNCHANGED <<request, net, tasks, order, allResults, handlerFeed, mergeCalls, response, hpc>>
    /\ UNCHANGED call

\* setFeedList(list) with another list, the render, the cleanup of the
\* previous effect (clearTimeout) and the effect for the new list.
EditFeedList ==
    /\ page.edits < MaxEdits
    /\ \E list \in FeedLists \ {page.feedList} :
          page' = IF Len(validFeedsOf(list)) > 0
                  THEN [page EXCEPT !.feedList = list, !.edits = @ + 1, !.timer = TRUE]
                  ELSE [page EXCEPT !.feedList = list, !.edits = @ + 1, !.timer = FALSE,
                                    !.previewItems = NoPreview]
    /\ PageFrame

\* The timeout fires: fetchPreview up to its await of fetch.
StartPreview ==
    /\ page.timer
    /\ page' = [page EXCEPT !.timer = FALSE,
                            !.isLoadingPreview = TRUE,
                            !.inflight = @ \cup {[edit |-> page.edits,
                                                  feeds |-> validFeedsOf(page.feedList)]}]
    /\ PageFrame

\* The response to a preview request comes back, ok or not: fetchPreview
\* from its await to its end.
FinishPreview ==
    /\ \E r \in page.inflight : \E ok \in BOOLEAN :
          page' = IF ok
                  THEN [page EXCEPT !.inflight = @ \ {r},
                                    !.previewItems = Preview(r.feeds),
                                    !.mergedUrl = MergedUrl(r.feeds),
                                    !.isLoadingPreview = FALSE]
                  ELSE [page EXCEPT !.inflight = @ \ {r},
                                    !.previewItems = NoPreview,
                                    !.isLoadingPreview = FALSE]
    /\ PageFrame

NextPage == EditFeedList \/ StartPreview \/ FinishPreview

SpecPage == InitPage /\ [][NextPage]_vars

(***************************************************************************)
(* Claims about mergeFeeds                                                 *)
(***************************************************************************)
Min(a, b) == IF a < b THEN a ELSE b

RECURSIVE Sum(_)
Sum(ns) == IF ns = <<>> THEN 0 ELSE Head(ns) + Sum(Tail(ns))

\* A synthetic failure item: its guid starts with "error-".
IsFailureItem(item) == item.guid.t = "string" /\ StartsWith(item.guid.s, ErrorDash)

\* A result carries an error when its error is not null.
CarriesError(r) == r.error.t # "null"

FailureCount(rs) == Cardinality({i \in 1..Len(rs) : CarriesError(rs[i])})
SuccessItemCount(rs) ==
    Sum([i \in 1..Len(rs) |-> IF CarriesError(rs[i]) THEN 0 ELSE Len(rs[i].feed.items)])

FailuresFirst(items) ==
    \A i \in 1..Len(items) : \A j \in 1..Len(items) :
        (IsFailureItem(items[i]) /\ ~IsFailureItem(items[j])) => i < j

\* C1: mergeFeeds returns exactly min(100, F + N) items, F the number of
\* results that carry an error and N the number of items of the results
\* without one, and every failure item comes before every other item.
C1_CountAndFailuresFirst ==
    phase = "merged" =>
        /\ Len(mergedFeed.items)
             = Min(MaxItems, FailureCount(results) + SuccessItemCount(results))
        /\ FailuresFirst(mergedFeed.items)

HasIsoDate(item) == ~IsFailureItem(item) /\ Truthy(item.isoDate)

IsPrefix(a, b) == Len(a) <= Len(b) /\ SubSeq(b, 1, Len(a)) = a

IsoDatesOf(items) == {items[i].isoDate : i \in {k \in 1..Len(items) : HasIsoDate(items[k])}}

WithIsoDate(items, d) ==
    LET Test(item) == HasIsoDate(item) /\ item.isoDate = d
    IN  SelectSeq(items, Test)

\* C2: the items with an isoDate come out in non-increasing isoDate order,
\* and those with the same isoDate keep the order they had in the
\* concatenation of the input feeds.
C2_IsoDateOrderAndStability ==
    phase = "merged" =>
        /\ \A i \in 1..Len(mergedFeed.items) : \A j \in 1..Len(mergedFeed.items) :
              (i < j /\ HasIsoDate(mergedFeed.items[i]) /\ HasIsoDate(mergedFeed.items[j]))
              => /\ ~getTime(mergedFeed.items[i].isoDate.s).nan
                 /\ ~getTime(mergedFeed.items[j].isoDate.s).nan
                 /\ getTime(mergedFeed.items[i].isoDate.s).n
                      >= getTime(mergedFeed.items[j].isoDate.s).n
        /\ \A d \in IsoDatesOf(mergedFeed.items) :
              IsPrefix(WithIsoDate(mergedFeed.items, d), WithIsoDate(allItemsOf(results), d))

IsDateless(item) == ~IsFailureItem(item) /\ ~Truthy(item.isoDate) /\ ~Truthy(item.pubDate)
IsDated(item) == ~IsFailureItem(item) /\ (Truthy(item.isoDate) \/ Truthy(item.pubDate))

\* C3: the real items come out in descending order of the timestamp of
\* isoDate, else of pubDate, else 0, so that every real item without any
\* date comes after every real item that has a date.
C3_DatelessItemsLast ==
    phase = "merged" =>
        \A i \in 1..Len(mergedFeed.items) : \A j \in 1..Len(mergedFeed.items) :
            /\ (i < j /\ ~IsFailureItem(mergedFeed.items[i]) /\ ~IsFailureItem(mergedFeed.items[j])
                /\ ~itemDate(mergedFeed.items[i]).nan /\ ~itemDate(mergedFeed.items[j]).nan)
               => itemDate(mergedFeed.items[i]).n >= itemDate(mergedFeed.items[j]).n
            /\ (IsDated(mergedFeed.items[i]) /\ IsDateless(mergedFeed.items[j])) => i < j

(***************************************************************************)
(* Reading a generated RSS document back (XML 1.0 character data): a CDATA *)
(* section ends at the first "]]>", the five predefined entities decode to *)
(* their characters, and any other markup or "&" is not text.              *)
(***************************************************************************)
\* The index of the first "]]>" at or after i, or 0.
FirstCDataClose(str, i) ==
    LET at == {k \in i..Len(str) : StartsAt(str, k, CDataClose)}
    IN  IF at = {} THEN 0 ELSE CHOOSE k \in at : \A m \in at : k <= m

NotText == [ok |-> FALSE, text |-> <<>>]
Prepend(chars, read) ==
    IF read.ok THEN [ok |-> TRUE, text |-> chars \o read.text] ELSE NotText

RECURSIVE ReadFrom(_, _)
ReadFrom(body, i) ==
    IF i > Len(body) THEN [ok |-> TRUE, text |-> <<>>]
    ELSE IF StartsAt(body, i, CDataOpen)
    THEN LET e == FirstCDataClose(body, i + Len(CDataOpen))
         IN  IF e = 0 THEN NotText
             ELSE Prepend(SubSeq(body, i + Len(CDataOpen), e - 1),
                          ReadFrom(body, e + Len(CDataClose)))
    ELSE IF StartsAt(body, i, Amp) THEN Prepend(<<"&">>, ReadFrom(body, i + Len(Amp)))
    ELSE IF StartsAt(body, i, Lt) THEN Prepend(<<"<">>, ReadFrom(body, i + Len(Lt)))
    ELSE IF StartsAt(body, i, Gt) THEN Prepend(<<">">>, ReadFrom(body, i + Len(Gt)))
    ELSE IF StartsAt(body, i, Quot) THEN Prepend(<<"\"">>, ReadFrom(body, i + Len(Quot)))
    ELSE IF StartsAt(body, i, Apos) THEN Prepend(<<"'">>, ReadFrom(body, i + Len(Apos)))
    ELSE IF body[i] \in {"&", "<"} \/ StartsAt(body, i, CDataClose) THEN NotText
    ELSE Prepend(<<body[i]>>, ReadFrom(body, i + 1))

\* The text a reader gets from the text written between two tags.
ReadText(body) == ReadFrom(body, 1)

WithTag(elems, tag) ==
    LET Test(e) == e.tag = tag
    IN  SelectSeq(elems, Test)

\* The text of the element `tag` of an item, when the item has exactly one.
ReadElement(elems, tag) ==
    IF Len(WithTag(elems, tag)) = 1 THEN ReadText(WithTag(elems, tag)[1].body) ELSE NotText

Rendered == phase \in {"rss", "done"}

(***************************************************************************)
(* Claims about the serialisers                                            *)
(***************************************************************************)
\* The text the claim gives a guid or category value: nothing for null and
\* undefined, the string form of a primitive, the `_` field of a structure.
ClaimedText(v) == IF IsNullish(v) THEN <<>> ELSE v.s

AllBodies(elems) == {elems[k].body : k \in 1..Len(elems)}

\* C8: a guid or category value is rendered as the empty string when null or
\* undefined, as its string form when primitive and as its `_` text when
\* structured; a guid { isPermaLink: "false", _: t } is written <guid>t</guid>;
\* and no output holds a stringified object.
C8_CoercedTextOnly ==
    phase = "done" =>
        \A i \in 1..Len(mergedFeed.items) :
            LET item == mergedFeed.items[i]
                cats == item.categories.list
            IN  /\ Truthy(item.guid) =>
                      ReadElement(xml.items[i], "guid") = [ok |-> TRUE, text |-> ClaimedText(item.guid)]
                /\ ClaimedText(item.guid) # <<>> => json.items[i].id = ClaimedText(item.guid)
                /\ \A k \in 1..Len(cats) :
                      /\ ReadText(WithTag(xml.items[i], "category")[k].body)
                           = [ok |-> TRUE, text |-> ClaimedText(cats[k])]
                      /\ json.items[i].tags.list[k] = ClaimedText(cats[k])
                /\ \A body \in AllBodies(xml.items[i]) : ~Contains(body, ObjectObject)
                /\ ~Contains(json.items[i].id, ObjectObject)
                /\ \A k \in 1..Len(json.items[i].tags.list) :
                      ~Contains(json.items[i].tags.list[k], ObjectObject)

\* A structured value reduced to its text: { _: c, ...attributes } becomes c.
Bare(v) == IF v.t = "object" /\ v.u = "string" THEN Str(v.s) ELSE v
BareCategories(item) ==
    [item EXCEPT !.categories.list = [k \in 1..Len(item.categories.list) |->
                                          Bare(item.categories.list[k])]]
IsTextEntry(v) == v.t = "string" \/ (v.t = "object" /\ v.u = "string")

\* C9: generateRSS writes one <category> per entry of categories, in order,
\* holding only the entry's text; generateJSONFeed writes the same texts as
\* tags; and an entry { _: c, ... } gives the same output as the string c.
C9_CategoriesAsText ==
    phase = "done" =>
        \A i \in 1..Len(mergedFeed.items) :
            LET item == mergedFeed.items[i]
                cats == item.categories.list
                elems == WithTag(xml.items[i], "category")
            IN  /\ Len(elems) = Len(cats)
                /\ \A k \in 1..Len(cats) :
                      /\ ReadText(elems[k].body).ok
                      /\ IsTextEntry(cats[k]) => ReadText(elems[k].body).text = cats[k].s
                      /\ json.items[i].tags.list[k] = ReadText(elems[k].body).text
                /\ json.items[i].tags.set = item.categories.set
                /\ Len(json.items[i].tags.list) = Len(cats)
                /\ xml.items[i] = itemXml(BareCategories(item))
                /\ json.items[i].tags = jsonTags(BareCategories(item))

\* C9 witness: an item with a bare and a structured category was rendered.
C9_Witness ==
    /\ phase = "done"
    /\ \E i \in 1..Len(mergedFeed.items) :
          LET cats == mergedFeed.items[i].categories.list
          IN  /\ Len(cats) = 2
              /\ cats[1] = Obj("string", <<"<", "&">>)
              /\ cats[2] = Str(<<"c">>)
              /\ Len(WithTag(xml.items[i], "category")) = 2
              /\ json.items[i].tags.list = << <<"<", "&">>, <<"c">> >>

\* C10: reading the generateRSS output of one merged feed back gives, for
\* every item, exactly the title, the link and the content of the source
\* item, the content unchanged inside its CDATA section.
C10_RssRoundTrip ==
    Rendered =>
        \A i \in 1..Len(mergedFeed.items) :
            LET item == mergedFeed.items[i]
            IN  /\ Truthy(item.title) =>
                      ReadElement(xml.items[i], "title") = [ok |-> TRUE, text |-> item.title.s]
                /\ Truthy(item.link) =>
                      ReadElement(xml.items[i], "link") = [ok |-> TRUE, text |-> item.link.s]
                /\ Truthy(item.content) =>
                      ReadElement(xml.items[i], "content:encoded")
                        = [ok |-> TRUE, text |-> item.content.s]

(***************************************************************************)
(* Claims about the request handler                                        *)
(***************************************************************************)
Count(items, Test(_)) == Cardinality({k \in 1..Len(items) : Test(items[k])})

FailedSources == {i \in 1..Len(allResults) : allResults[i].feed.null}

\* C4: for a request with at least one URL, every source whose fetch or parse
\* failed has exactly one failure item in the merged feed, linking to the
\* source's URL and placed before all real items, and the items of the
\* sources that succeeded are all merged, up to the cap of 100 items.
C4_FailedSourcesShown ==
    response.status = 200 =>
        LET items == handlerFeed.items
            IsReal(item) == ~IsFailureItem(item)
            realItems == Sum([i \in 1..Len(allResults) |->
                                 IF i \in FailedSources THEN 0
                                 ELSE Len(allResults[i].feed.items)])
        IN  /\ Count(items, IsFailureItem) = Cardinality(FailedSources)
            /\ \A i \in FailedSources :
                  LET LinksToSource(item) ==
                          IsFailureItem(item) /\ item.link = allResults[i].url
                  IN  Count(items, LinksToSource)
                        = Cardinality({j \in FailedSources :
                                          allResults[j].url = allResults[i].url})
            /\ FailuresFirst(items)
            /\ Count(items, IsReal) = Min(MaxItems - Cardinality(FailedSources), realItems)

\* C5: parseFeedFromUrl never rejects: whatever the probe, the parse, the
\* discovery fetch and the parse of the discovered URL answer, its promise is
\* pending or fulfilled, a fulfilled one holds a result with exactly one of
\* feed and error non-null, and Promise.all over the sources never rejects.
C5_NeverRejects ==
    /\ \A i \in 1..Len(tasks) :
          /\ tasks[i].state \in {"pending", "fulfilled"}
          /\ tasks[i].state = "fulfilled" =>
                (tasks[i].value.feed.null <=> ~IsNullish(tasks[i].value.error))
    /\ PromiseAllState(tasks) # "rejected"
    /\ response # ServerError

\* C5 witness: a source whose discovered URL failed to parse has settled and
\* the request was answered with a feed.
C5_Witness ==
    /\ response.status = 200
    /\ \E i \in 1..Len(tasks) :
          /\ tasks[i].feedUrl # <<>>
          /\ tasks[i].state = "fulfilled"
          /\ tasks[i].value.feed.null
          /\ tasks[i].value.error = Str(Status404)

\* The result of one source as a function of its URL and of the replies it
\* gets, whatever else goes on.
SourceResult(url, script) ==
    LET direct == tryParseAsJSONFeed(script.probe, url)
        found == discoverFeedFromHtml(script.discover, url)
        discovered == tryParseAsJSONFeed(script.dprobe, found.s)
    IN  IF ~direct.null THEN resolveFeed(direct, url).value
        ELSE IF script.parse.ok THEN resolveFeed(withSource(script.parse.feed, url), url).value
        ELSE IF ~Truthy(found) THEN catchOriginal(script.parse.message, url).value
        ELSE IF ~discovered.null THEN resolveFeed(discovered, url).value
        ELSE IF script.dparse.ok
        THEN resolveFeed(withSource(script.dparse.feed, found.s), url).value
        ELSE catchDiscovered(script.dparse.message, url).value

ExpectedResults == [i \in 1..Len(request.urls) |-> SourceResult(request.urls[i], net[i])]

LinksOf(items) == [k \in 1..Len(items) |-> items[k].link]

\* C6: mergeFeeds gets the results in the order of the URL list whatever
\* order the fetches complete in, so the merged feed, with the order of its
\* failure items and of its items of equal date, is the one the URL list and
\* the replies determine.
C6_ResultsInUrlOrder ==
    mergeCalls = 1 =>
        /\ Len(allResults) = Len(request.urls)
        /\ \A i \in 1..Len(allResults) : allResults[i].url = Str(request.urls[i])
        /\ allResults = ExpectedResults
        /\ handlerFeed \in mergeFeeds(ExpectedResults, RequestUrl, Now)
        /\ LinksOf(SelectSeq(handlerFeed.items, IsFailureItem))
             = LET failed == failedFeedsOf(ExpectedResults)
               IN  [k \in 1..Len(failed) |-> failed[k].url]

\* C6 witness: the second source settled before the first, both failed, and
\* the failure items are in the order of the URL list.
C6_Witness ==
    /\ mergeCalls = 1
    /\ request.urls = <<U1, U2>>
    /\ order = <<2, 1>>
    /\ Len(handlerFeed.items) = 2
    /\ IsFailureItem(handlerFeed.items[1]) /\ handlerFeed.items[1].link = Str(U1)
    /\ IsFailureItem(handlerFeed.items[2]) /\ handlerFeed.items[2].link = Str(U2)

AllSettled == \A i \in 1..Len(tasks) : tasks[i].state # "pending"

\* C7: the handler calls mergeFeeds once, and nothing of the response, the
\* merged feed or a rendered document exists while a source is pending.
C7_MergeOnceAfterAllSettled ==
    /\ mergeCalls <= 1
    /\ response.status = 200 => mergeCalls = 1
    /\ mergeCalls = 1 => AllSettled /\ Len(allResults) = Len(tasks)
    /\ (response # NoResponse \/ handlerFeed # NoFeed \/ xml # NoXml \/ json # NoJson)
          => AllSettled

\* C7 witness: a request for two sources was answered after both settled.
C7_Witness ==
    /\ response.status = 200
    /\ Len(tasks) = 2
    /\ mergeCalls = 1
    /\ AllSettled

(***************************************************************************)
(* Claims about escaping and stripping                                     *)
(***************************************************************************)
EntityOf(c) ==
    CASE c = "&" -> Amp
      [] c = "<" -> Lt
      [] c = ">" -> Gt
      [] c = "\"" -> Quot
      [] c = "'" -> Apos
      [] OTHER -> <<c>>

\* text with every & < > " ' replaced by its entity, one character at a time.
Escaped(text) == Concat([k \in 1..Len(text) |-> EntityOf(text[k])])

\* The text the element `e` of `item` was written from, for the elements
\* outside CDATA.
WrittenValue(item, e, k) ==
    CASE e.tag = "title" -> safeString(item.title)
      [] e.tag = "link" -> safeString(item.link)
      [] e.tag = "guid" -> safeString(Or(Or(item.guid, item.link), Str(<<>>)))
      [] e.tag = "pubDate" -> safeString(Or(item.pubDate, item.isoDate))
      [] e.tag = "description" -> encodeContent(item.contentSnippet.s)
      [] e.tag = "category" -> safeString(item.categories.list[k])
      [] e.tag = "source" -> safeString(item.sourceFeedTitle)

InCData == {"dc:creator", "content:encoded"}

\* The position of element k among the elements of its tag.
NthOfTag(elems, k) ==
    Cardinality({j \in 1..k : elems[j].tag = elems[k].tag})

\* C11: in a generateRSS document every value outside CDATA (channel title,
\* description and link; item title, link, guid, pubDate, description,
\* category, source url and source title) is written with each & < > " '
\* replaced by its entity.
C11_EscapedOutsideCData ==
    Rendered =>
        /\ xml.title = Escaped(Or(mergedFeed.title, Str(FEED_TITLE)).s)
        /\ xml.description = Escaped(Or(mergedFeed.description, Str(DefaultDescription)).s)
        /\ xml.link = Escaped(Or(Or(mergedFeed.link, RequestUrl), Str(<<>>)).s)
        /\ \A i \in 1..Len(mergedFeed.items) :
              \A k \in 1..Len(xml.items[i]) :
                  LET e == xml.items[i][k]
                  IN  (e.tag \notin InCData /\ ~e.selfClosing) =>
                          /\ e.body = Escaped(WrittenValue(mergedFeed.items[i], e,
                                                           NthOfTag(xml.items[i], k)))
                          /\ e.tag = "source" =>
                                e.attr = Escaped(safeString(mergedFeed.items[i].sourceFeedUrl))

\* C11 witness: a title made of markup characters was written as entities,
\* and the channel link holds the request URL with its & escaped.
C11_Witness ==
    /\ Rendered
    /\ Len(mergedFeed.items) = 1
    /\ mergedFeed.items[1].title = Str(<<"<", "&", "\"">>)
    /\ xml.items[1][1].body = Lt \o Amp \o Quot
    /\ Contains(xml.link, Amp)

\* The modelled characters of \x20-\x7E, and newline, carriage return, tab.
Ascii20To7E == {"a", "t", "l", "c", "7", " ", "~", "&", "<", ">", "]", "\"", "'"}
KeptControls == {"LF", "CR", "TAB"}

RECURSIVE Stripped(_)
Stripped(s) ==
    IF s = <<>> THEN <<>>
    ELSE IF Head(s) \in Ascii20To7E \cup KeptControls THEN <<Head(s)>> \o Stripped(Tail(s))
    ELSE Stripped(Tail(s))

ElementsOf(elems, tag) == SelectSeq(elems, LAMBDA e : e.tag = tag)

\* C14: the <description> of an item holds its snippet with exactly the
\* characters outside \x20-\x7E, newline, carriage return and tab removed,
\* the others kept in order (then escaped); the <content:encoded> of an
\* item holds its content between the CDATA marks with every character
\* kept, and such an item gets no <description>.
C14_SnippetStrippedContentKept ==
    Rendered =>
        \A i \in 1..Len(mergedFeed.items) :
            LET item == mergedFeed.items[i]
                descriptions == ElementsOf(xml.items[i], "description")
                contents == ElementsOf(xml.items[i], "content:encoded")
            IN  /\ (item.content.t = "string" /\ item.content.s # <<>>) =>
                      /\ descriptions = <<>>
                      /\ Len(contents) = 1
                      /\ contents[1].body = CDataOpen \o item.content.s \o CDataClose
                /\ (~Truthy(item.content) /\ item.contentSnippet.t = "string"
                        /\ item.contentSnippet.s # <<>>) =>
                      /\ contents = <<>>
                      /\ Len(descriptions) = 1
                      /\ descriptions[1].body = Escaped(Stripped(item.contentSnippet.s))

\* C14 witness: an item without content whose snippet is "a, em-dash" got
\* the description "a".
C14_Witness ==
    /\ Rendered
    /\ Len(mergedFeed.items) = 1
    /\ mergedFeed.items[1].contentSnippet = Str(<<"a", "EMDASH">>)
    /\ ~Truthy(mergedFeed.items[1].content)
    /\ ElementsOf(xml.items[1], "description")[1].body = <<"a">>

(***************************************************************************)
(* Claims about feed discovery                                             *)
(***************************************************************************)
Returned(fn) == call.fn = fn /\ call.state = "returned"

\* The feed link tags of a page, in document order.
FeedTagsOf(reply) == SelectSeq(reply.links, IsFeedLink)

\* The parts of a URL scheme://authority/path?query
SchemeOf(url) == SubSeq(url, 1, IndexOf(url, ":") - 1)
AuthorityOf(url) ==
    LET rest == SubSeq(url, IndexOf(url, ":") + 3, Len(url))
    IN  SubSeq(rest, 1, FirstOf(rest, {"/", "?", "#"}) - 1)
PathOf(url) ==
    LET rest == SubSeq(url, IndexOf(url, ":") + 3, Len(url))
    IN  SubSeq(rest, FirstOf(rest, {"/", "?", "#"}), FirstOf(rest, {"?", "#"}) - 1)
\* The directory of a path: the path up to and with its last "/".
DirectoryOf(path) == IF path = <<>> THEN <<"/">> ELSE SubSeq(path, 1, LastIndexOf(path, "/"))
SchemeAndHost(url) == SchemeOf(url) \o <<":", "/", "/">> \o AuthorityOf(url)

Resolved(href, url) ==
    IF StartsWith(href, Http) \/ StartsWith(href, Https) THEN href
    ELSE IF StartsWith(href, <<"/", "/">>) THEN SchemeOf(url) \o <<":">> \o href
    ELSE IF StartsWith(href, <<"/">>) THEN SchemeAndHost(url) \o href
    ELSE SchemeAndHost(url) \o DirectoryOf(PathOf(url)) \o href

BlogFeed == <<"h", "t", "t", "p", "s", ":", "/", "/", "e", "x", "a", "m", "p", "l", "e", ".", "c", "o", "m", "/", "b", "l", "o", "g", "/", "f", "e", "e", "d", ".", "x", "m", "l">>

\* C12: discoverFeedFromHtml returns an href starting with http:// or
\* https:// unchanged, gives an href starting with // the scheme of the page
\* URL, an href starting with / its scheme and host, and resolves any other
\* href against the directory of the page URL's path.
C12_HrefResolution ==
    (Returned("discoverFeedFromHtml") /\ call.value # Null) =>
        LET href == FeedTagsOf(call.reply)[1].href
        IN  /\ call.value = Str(Resolved(href, call.url))
            /\ (call.url = BlogDir /\ href = RootRelativeFeed) => call.value = Str(BlogFeed)
            /\ (call.url = BlogPage /\ href = RelativeFeed) => call.value = Str(BlogFeed)

\* C12 witness: feed.xml was resolved against https://example.com/blog/page.html.
C12_Witness ==
    /\ Returned("discoverFeedFromHtml")
    /\ call.url = BlogPage
    /\ FeedTagsOf(call.reply) = <<LinkTag(RssXml, RelativeFeed)>>
    /\ call.value = Str(BlogFeed)

\* The media type of a type attribute: its text before any ";" parameter.
MediaTypeOf(type) == SubSeq(type, 1, FirstOf(type, {";"}) - 1)

\* A link tag carrying both an href and one of the four feed media types.
CarriesFeed(tag) == tag.href # <<>> /\ MediaTypeOf(tag.type) \in FeedTypes

\* C13: discoverFeedFromHtml never throws; it returns null when the fetch
\* fails, when the content type contains neither text/html nor
\* application/xhtml, or when no rel=alternate link tag carries both an href
\* and a feed media type (application/rss+xml, application/atom+xml,
\* application/feed+json, application/json); otherwise it returns the
\* resolved href of the first such tag in document order.
C13_NullUnlessFeedLink ==
    Returned("discoverFeedFromHtml") =>
        LET feeds == SelectSeq(call.reply.links, CarriesFeed)
        IN  call.value =
                IF ~call.reply.ok THEN Null
                ELSE IF ~Contains(call.reply.contentType, TextHtml)
                        /\ ~Contains(call.reply.contentType, ApplicationXhtml) THEN Null
                ELSE IF feeds = <<>> THEN Null
                ELSE Str(Resolved(feeds[1].href, call.url))

(***************************************************************************)
(* Claims about the requests of one source                                 *)
(***************************************************************************)
\* C15: every request sent for a source (JSON probe, parser fetch,
\* discovery fetch, of the original and of a discovered URL) carries the
\* custom user-agent.
C15_UserAgentOnEveryRequest ==
    \A i \in 1..Len(tasks) :
        \A k \in 1..Len(tasks[i].sent) :
            tasks[i].sent[k].userAgent = Str(USER_AGENT)

\* C16: every item of the merged feed either carries sourceFeedTitle and
\* sourceFeedUrl, or is a failure item: its guid starts with "error-" and its
\* content holds the error message of a failed source.
C16_ProvenanceOrFailureItem ==
    response.status = 200 =>
        \A k \in 1..Len(handlerFeed.items) :
            LET item == handlerFeed.items[k]
            IN  \/ item.sourceFeedTitle # Undefined /\ item.sourceFeedUrl # Undefined
                \/ /\ IsFailureItem(item)
                   /\ \E i \in 1..Len(allResults) :
                          /\ CarriesError(allResults[i])
                          /\ item.link = allResults[i].url
                          /\ Contains(item.content.s, Escaped(allResults[i].error.s))

(***************************************************************************)
(* Claims about the handler's answers                                      *)
(***************************************************************************)
\* The request supplies a non-empty list of URL strings.
SuppliesUrls(req) == req.feeds # "invalid" /\ req.decoded = Array /\ Len(req.urls) > 0

\* C17: the fan-out starts only for a request that supplies a non-empty list
\* of URL strings; any other request is answered with a 400, with no fetch
\* and no merge.
C17_FanOutOnlyWithUrls ==
    /\ tasks # <<>> => SuppliesUrls(request)
    /\ (~SuppliesUrls(request) /\ hpc = "done") =>
          /\ response.status = 400
          /\ tasks = <<>>
          /\ mergeCalls = 0

\* C18: a request whose RSS document could not be built is still answered
\* with an RSS document (the fallback), never with a 500.
C18_FallbackInsteadOf500 ==
    (hpc = "done" /\ mergeCalls = 1 /\ ~IsJsonFormat(request.format)
        /\ generateRSSThrows(handlerFeed)) =>
            /\ response.status # 500
            /\ response = FeedResponse("application/rss+xml; charset=utf-8")

(***************************************************************************)
(* Claims about the steps of one source                                    *)
(***************************************************************************)
\* The requests of a source that went all the way, in order.
AllRequests(url, feedUrl) ==
    <<[fn |-> "tryParseAsJSONFeed", url |-> url],
      [fn |-> "parser.parseURL", url |-> url],
      [fn |-> "discoverFeedFromHtml", url |-> url],
      [fn |-> "tryParseAsJSONFeed", url |-> feedUrl],
      [fn |-> "parser.parseURL", url |-> feedUrl]>>

IsDiscovery(r) == r.fn = "discoverFeedFromHtml"

RequestsInBounds ==
    \A i \in 1..Len(tasks) :
        LET sent == tasks[i].sent
        IN  /\ Len(sent) <= 5
            /\ Count(sent, IsDiscovery) <= 1
            /\ \A k \in 1..Len(sent) :
                  /\ IsDiscovery(sent[k]) => (k = 3 /\ ~net[i].parse.ok)
                  /\ k <= 5 =>
                        /\ sent[k].fn = AllRequests(tasks[i].url, tasks[i].feedUrl)[k].fn
                        /\ k <= 3 => sent[k].url = tasks[i].url
                        /\ (k > 3 /\ tasks[i].feedUrl # <<>>) => sent[k].url = tasks[i].feedUrl

\* C19: a source sends at most five requests, in the order probe, parse,
\* discovery, probe and parse of the discovered URL; the discovery request
\* is sent at most once, and only after the parse of the original URL
\* threw; and once the fan-out has started every source settles.
C19_OneDiscoveryThenResolves ==
    /\ []RequestsInBounds
    /\ (tasks # <<>>) ~> AllSettled

\* C19 witness: a source has settled after its fifth request, the parse of
\* the URL it discovered having thrown.
C19_Witness ==
    \E i \in 1..Len(tasks) :
        /\ tasks[i].state = "fulfilled"
        /\ Len(tasks[i].sent) = 5
        /\ ~net[i].dparse.ok
        /\ Count(tasks[i].sent, IsDiscovery) = 1

\* The reply to a JSON probe yields no JSON Feed: the fetch failed, the
\* content type is not JSON, the body does not parse, or the version lacks
\* "jsonfeed.org".
YieldsNoJsonFeed(reply) ==
    \/ ~reply.ok
    \/ ~reply.json
    \/ ~reply.parses
    \/ reply.doc.version.t # "string"
    \/ ~Contains(reply.doc.version.s, JsonFeedOrg)

\* The discovery path of source i failed: no feed URL was found, or the URL
\* found gave neither a JSON Feed nor a feed that parses.
DiscoveryPathFailed(i) ==
    LET found == discoverFeedFromHtml(net[i].discover, tasks[i].url)
    IN  \/ ~Truthy(found)
        \/ YieldsNoJsonFeed(net[i].dprobe) /\ ~net[i].dparse.ok

\* C20: a source whose JSON probe yields no JSON Feed goes on to
\* parser.parseURL of the same URL; it never rejects, its error is never the
\* probe's, it gets the parsed feed when the parse succeeds, and it fails
\* only when the parse threw and the discovery path failed too.
C20_ProbeFallsThrough ==
    \A i \in 1..Len(tasks) :
        YieldsNoJsonFeed(net[i].probe) =>
            /\ tasks[i].pc # "probe" =>
                  /\ Len(tasks[i].sent) >= 2
                  /\ tasks[i].sent[2].fn = "parser.parseURL"
                  /\ tasks[i].sent[2].url = tasks[i].url
            /\ tasks[i].state # "rejected"
            /\ tasks[i].state = "fulfilled" =>
                  /\ net[i].parse.ok =>
                        tasks[i].value.feed = withSource(net[i].parse.feed, tasks[i].url)
                  /\ tasks[i].value.feed.null =>
                        /\ ~net[i].parse.ok
                        /\ DiscoveryPathFailed(i)
                        /\ tasks[i].value.error
                              \in {Str(net[i].parse.message), Str(net[i].dparse.message)}

\* C20 witness: one source whose probe got JSON without a version has failed
\* with the parser's message, and another whose probe got a body that is not
\* JSON has a feed.
C20_Witness ==
    /\ \E i \in 1..Len(tasks) :
          /\ net[i].probe = ProbeOtherJson
          /\ tasks[i].state = "fulfilled"
          /\ tasks[i].value.error = Str(NotRecognized)
    /\ \E i \in 1..Len(tasks) :
          /\ net[i].probe = ProbeBadJson
          /\ tasks[i].state = "fulfilled"
          /\ ~tasks[i].value.feed.null

(***************************************************************************)
(* Claims about the independence of the sources                            *)
(***************************************************************************)
\* C21: at every moment, whatever the other sources of the request are and
\* whatever order the replies come back in, the result a source has settled
\* with is the one its own URL and the replies to its own requests
\* determine, and it is the result handed to mergeFeeds for it.
C21_SourceResultIndependent ==
    /\ \A i \in 1..Len(tasks) :
          /\ tasks[i].state = "pending" => tasks[i].value = NoResult
          /\ tasks[i].state # "pending" =>
                /\ tasks[i].state = "fulfilled"
                /\ tasks[i].value = SourceResult(tasks[i].url, net[i])
    /\ \A i \in 1..Len(allResults) :
          allResults[i] = SourceResult(request.urls[i], net[i])

\* C21 witness: two sources of the same URL got different replies and
\* settled, the second first; the first has a feed and the second failed.
C21_Witness ==
    /\ request.urls = <<U1, U1>>
    /\ order = <<2, 1>>
    /\ net[1] # net[2]
    /\ ~tasks[1].value.feed.null
    /\ tasks[2].value.feed.null
    /\ tasks[2].state = "fulfilled"

(***************************************************************************)
(* Claims about the identity of an item in the two formats                 *)
(***************************************************************************)
\* The text of a value that is there: of a string, number or boolean its
\* string form, of a structure the string form of its `_`; nothing for null
\* and undefined.
TextOf(v) ==
    IF IsNullish(v) THEN <<>>
    ELSE IF v.t = "object" /\ v.u = "object" THEN ObjectObject
    ELSE v.s

\* C22: every item gets exactly one <guid>; it holds the guid's text when the
\* item has a guid with a text, otherwise the link when there is one and no
\* guid value at all, otherwise the empty string or the link.
C22_GuidElement ==
    Rendered =>
        \A i \in 1..Len(mergedFeed.items) :
            LET item == mergedFeed.items[i]
                guids == ElementsOf(xml.items[i], "guid")
            IN  /\ Len(guids) = 1
                /\ ~guids[1].selfClosing
                /\ IF TextOf(item.guid) # <<>> THEN guids[1].body = Escaped(TextOf(item.guid))
                   ELSE IF IsNullish(item.guid) \/ item.guid = Str(<<>>)
                   THEN guids[1].body = Escaped(TextOf(item.link))
                   ELSE guids[1].body \in {<<>>, Escaped(TextOf(item.link))}

(***************************************************************************)
(* Claims about the content of an item                                     *)
(***************************************************************************)
\* A value that is there: neither null nor undefined nor the empty string.
Present(v) == ~IsNullish(v) /\ v # Str(<<>>)
Absent(v) == ~Present(v)

\* generateRSS has returned or thrown.
RenderEnded == phase \in {"rss", "done", "threw"}

\* C23: once generateRSS has run, an item with content has one
\* <content:encoded>, holding the content as it is between the CDATA marks,
\* and no <description>; an item without content but with a snippet has one
\* <description>, holding the snippet stripped and then escaped, and no
\* <content:encoded>; an item with neither has neither.
C23_ContentOrDescription ==
    RenderEnded =>
        /\ Len(xml.items) = Len(mergedFeed.items)
        /\ \A i \in 1..Len(xml.items) :
            LET item == mergedFeed.items[i]
                descriptions == ElementsOf(xml.items[i], "description")
                contents == ElementsOf(xml.items[i], "content:encoded")
            IN  /\ Len(descriptions) + Len(contents) <= 1
                /\ Present(item.content) =>
                      contents = <<Elem("content:encoded",
                                        CDataOpen \o TextOf(item.content) \o CDataClose)>>
                /\ (Absent(item.content) /\ Present(item.contentSnippet)) =>
                      descriptions = <<Elem("description",
                                            Escaped(Stripped(TextOf(item.contentSnippet))))>>
                /\ (Absent(item.content) /\ Absent(item.contentSnippet)) =>
                      descriptions = <<>> /\ contents = <<>>

(***************************************************************************)
(* Claims about the id of an item in a JSON Feed                           *)
(***************************************************************************)
\* C24: the id of an item is the text of its guid when that is not empty,
\* otherwise its link when that is not empty; it is a random identifier
\* only when both are empty, and the id of an item with a guid or a link
\* text is the same in every render of the merged feed.
C24_JsonIdStable ==
    phase = "done" =>
        \A i \in 1..Len(mergedFeed.items) :
            LET item == mergedFeed.items[i]
                id == json.items[i].id
            IN  /\ TextOf(item.guid) # <<>> => id = TextOf(item.guid)
                /\ (TextOf(item.guid) = <<>> /\ TextOf(item.link) # <<>>) => id = TextOf(item.link)
                /\ (\E seed \in Seeds : id = randomUUID(seed, i)) =>
                      (TextOf(item.guid) = <<>> /\ TextOf(item.link) = <<>>)
                /\ (TextOf(item.guid) # <<>> \/ TextOf(item.link) # <<>>) =>
                      \A seed \in Seeds :
                          generateJSONFeed(mergedFeed, RequestUrl, seed).items[i].id = id

\* C24 witness: an item whose guid is a structure without text got its link
\* as id.
C24_Witness ==
    /\ phase = "done"
    /\ Len(mergedFeed.items) = 1
    /\ mergedFeed.items[1].guid = Obj("undefined", <<>>)
    /\ mergedFeed.items[1].link = Str(Link)
    /\ json.items[1].id = Link

(***************************************************************************)
(* Claims about a JSON Feed read and written again                         *)
(***************************************************************************)
\* The value `written` is the value `read`: the same value, or the text of
\* a number.
SameValue(read, written) == written = read \/ (read.t = "number" /\ written = Str(read.s))

SameTags(read, written) ==
    /\ written.set = read.set
    /\ Len(written.list) = Len(read.list)
    /\ \A k \in 1..Len(read.list) : Str(written.list[k]) = read.list[k]

Reappears(read, written) ==
    /\ SameValue(read.id, Str(written.id))
    /\ written.url = read.url
    /\ written.title = read.title
    /\ written.content_html = read.content_html
    /\ written.content_text = read.content_text
    /\ written.date_published = read.date_published
    /\ written.author = read.author
    /\ SameTags(read.tags, written.tags)

\* C25: a JSON Feed document read by parseFeedFromJsonFeed, merged and
\* written by generateJSONFeed has a version containing "jsonfeed.org", as
\* many items as the document, and each item of the document among them
\* with the same id, url, title, content_html, content_text,
\* date_published, author name and tags.
C25_JsonFeedRoundTrip ==
    (phase = "done" /\ call.fn = "parseFeedFromJsonFeed" /\ call.value.error = Null) =>
        LET items == call.text.doc.items
        IN  /\ Contains(json.version, JsonFeedOrg)
            /\ Len(json.items) = Len(items)
            /\ \A k \in 1..Len(items) :
                  \E j \in 1..Len(json.items) : Reappears(items[k], json.items[j])

(***************************************************************************)
(* Claims about the content of a failure item                              *)
(***************************************************************************)
Occurrences(str, c) == Cardinality({k \in 1..Len(str) : str[k] = c})

Entities == {Amp, Lt, Gt, Quot, Apos}

\* Every "&" of str opens one of the five entities.
AmpOnlyInEntities(str) ==
    \A k \in 1..Len(str) :
        str[k] = "&" => \E e \in Entities : StartsAt(str, k, e)

FixedMarkup == FailedP \o FailedErrorP \o EndP

\* C26: the content of a failure item is the fixed fragment with the URL and
\* the error message in escaped form: its only "<" and ">" are those of the
\* fragment, each "&" opens an entity, it holds no "]]>", and the CDATA
\* section generateRSS wraps it in ends where the content ends.
C26_FailureContentEscaped ==
    Rendered =>
        \A i \in 1..Len(mergedFeed.items) :
            IsFailureItem(mergedFeed.items[i]) =>
                LET content == mergedFeed.items[i].content.s
                    failed == results[i]
                    body == ElementsOf(xml.items[i], "content:encoded")[1].body
                IN  /\ content = FailedP \o Escaped(failed.url.s) \o FailedErrorP
                                      \o Escaped(failed.error.s) \o EndP
                    /\ Occurrences(content, "<") = Occurrences(FixedMarkup, "<")
                    /\ Occurrences(content, ">") = Occurrences(FixedMarkup, ">")
                    /\ AmpOnlyInEntities(content)
                    /\ ~Contains(content, CDataClose)
                    /\ body = CDataOpen \o content \o CDataClose
                    /\ FirstCDataClose(body, 1) = Len(body) - 2

\* C26 witness: a source failed with the message "]]>", and the content of
\* its failure item holds "]]&gt;".
C26_Witness ==
    /\ Rendered
    /\ Len(results) = 1
    /\ results[1].error = Str(CDataClose)
    /\ Len(mergedFeed.items) = 1
    /\ IsFailureItem(mergedFeed.items[1])
    /\ Contains(mergedFeed.items[1].content.s, <<"]", "]">> \o Gt)

(***************************************************************************)
(* Claims about the two formats side by side                               *)
(***************************************************************************)
\* C27: for every item with a guid or a link, the text read from its <guid>
\* is its id in the JSON Feed.
C27_SameIdentityInBothFormats ==
    phase = "done" =>
        \A i \in 1..Len(mergedFeed.items) :
            LET item == mergedFeed.items[i]
            IN  (Present(item.guid) \/ Present(item.link)) =>
                    ReadElement(xml.items[i], "guid") = [ok |-> TRUE, text |-> json.items[i].id]

(***************************************************************************)
(* Claims about the error of a failed source                               *)
(***************************************************************************)
\* C28: a source whose direct parse threw and that has failed reports the
\* message of the discovered URL's parse when discovery returned a URL, and
\* the message of the original parse when it returned none.
C28_WhichErrorIsReported ==
    \A i \in 1..Len(tasks) :
        (tasks[i].state = "fulfilled" /\ tasks[i].value.feed.null) =>
            LET discoveries == SelectSeq(tasks[i].sent, IsDiscovery)
            IN  /\ ~net[i].parse.ok
                /\ Len(discoveries) = 1
                /\ IF tasks[i].feedUrl # <<>>
                   THEN /\ Len(tasks[i].sent) = 5
                        /\ tasks[i].value.error = Str(net[i].dparse.message)
                   ELSE /\ Len(tasks[i].sent) = 3
                        /\ tasks[i].value.error = Str(net[i].parse.message)

\* C28 witness: of two sources whose parse threw "Not a feed", the one that
\* discovered a URL reports that URL's "Status 404" and the other reports
\* "Not a feed".
C28_Witness ==
    /\ Len(tasks) = 2
    /\ \A i \in 1..2 : tasks[i].caught = NotRecognized /\ tasks[i].state = "fulfilled"
    /\ tasks[1].feedUrl # <<>>
    /\ tasks[1].value.error = Str(Status404)
    /\ tasks[2].feedUrl = <<>>
    /\ tasks[2].value.error = Str(NotRecognized)

(***************************************************************************)
(* Claims about the home page                                              *)
(***************************************************************************)
\* No timeout is pending and no preview request is in flight.
PageAtRest == ~page.timer /\ page.inflight = {}

\* C29: when the page is at rest, the preview shown is empty or the one of
\* the current feed list, and so is the merged URL: nothing of an earlier
\* feed list is left.
C29_PreviewOfLatestList ==
    PageAtRest =>
        /\ page.previewItems \in {NoPreview, Preview(validFeedsOf(page.feedList))}
        /\ page.mergedUrl \in {NoMergedUrl, MergedUrl(validFeedsOf(page.feedList))}

(***************************************************************************)
(* Claims about what mergeFeeds does to its arguments                      *)
(***************************************************************************)
\* The results after a step are the results before it, feed by feed and
\* item by item.
InputsKept ==
    /\ Len(results') = Len(results)
    /\ \A i \in 1..Len(results) :
          /\ results'[i].feed.items = results[i].feed.items
          /\ results'[i] = results[i]

\* C30: a call of mergeFeeds leaves every input result, and the items of
\* its feed in their order, as they were before the call.
C30_InputsUnchanged == [][MergeFeedsCall => InputsKept]_vars

\* C30, witness: mergeFeeds has returned a list that is not the
\* concatenation of the inputs' items (sorted into another order, or cut
\* at MaxItems), and an input with two items or more still has them.
C30_Witness ==
    /\ phase = "merged"
    /\ \E i \in 1..Len(results) : Len(results[i].feed.items) >= 2
    /\ \/ /\ Len(allItemsOf(results)) <= MaxItems
          /\ mergedFeed.items # allItemsOf(results)
          /\ FailureCount(results) = 0
       \/ /\ Len(allItemsOf(results)) > MaxItems
          /\ Len(mergedFeed.items) = MaxItems

====
